---- MODULE Spec2Model ----
(***************************************************************************)
(* A model of the DHT worker of bip-rs: the announce storage               *)
(* (src/storage.rs) and the handler's event loop (src/worker/handler.rs,   *)
(* src/worker/refresh.rs).                                                 *)
(*                                                                         *)
(* Time is counted in whole seconds.  One call of add_item / find_items    *)
(* reads the monotonic clock once: the two Instant::now() reads of         *)
(* add_item (the purge time and the `inserted` stamp) fall in the same     *)
(* second.                                                                 *)
(*                                                                         *)
(* The handler is modelled with its commands (StartBootstrap,              *)
(* StartLookup, the closed channel), the messages handle_incoming takes    *)
(* (the four requests, Response::Other and Response::GetPeers) and the     *)
(* four checks of the timer.  The bootstrap and lookup procedures, the     *)
(* routing table, the token store, the timer, the transaction ids and the  *)
(* socket follow the specification's description of them.                  *)
(***************************************************************************)
EXTENDS Integers, Sequences, FiniteSets, TLC

(***************************************************************************)
(* Program constants of storage.rs                                         *)
(***************************************************************************)
MAX_ITEMS_STORED == 500

EXPIRATION_TIME == 24 * 60 * 60

(***************************************************************************)
(* Bounds of the storage model                                             *)
(***************************************************************************)
\* the test block of addresses is filled up to MAX_ITEMS_STORED - s,
\* s \in 0..MaxSpare
MaxSpare == 1

\* the clock runs over this many expiration periods
MaxPeriods == 1

\* the instants calls are made at: each multiple of the expiration time
\* and one second after it, so that an entry is seen one second before
\* its expiration, at it and after it
Instants == {k * EXPIRATION_TIME + o : k \in 0 .. MaxPeriods, o \in {0, 1}}

\* info hashes [0u8; 20] and [1u8; 20] of the tests
InfoHashes == {0, 1}

\* test::dummy_block_socket_addrs(MAX_ITEMS_STORED + 1): addresses 1..501
BlockAddrs == 1 .. (MAX_ITEMS_STORED + 1)

FillCounts == {MAX_ITEMS_STORED - s : s \in 0 .. MaxSpare}

VARIABLES
    storage,    \* AnnounceStorage.storage: info hash -> Vec<AnnounceItem>
    expires,    \* AnnounceStorage.expires: Vec<ItemExpiration>
    clock,      \* the monotonic clock (Instant::now()), in seconds
    ret,        \* the last call and what it returned
    accepted,   \* history: probe pair -> time of its most recent add_item
                \* that returned true, -1 when there is none
    renewed,    \* history: probe pair -> that add_item was made at a later
                \* time than an accepted one that was still in force
    filled      \* history: the fill of the block (addresses 2..count under
                \* info hash 0) and its time

storageVars == <<storage, expires, clock, ret, accepted, renewed, filled>>

VARIABLES
    running,          \* DhtHandler.running
    bootstrapping,    \* DhtHandler.bootstrapping
    table_actions,    \* DhtHandler.table_actions: ActionID -> TableAction
    future_actions,   \* DhtHandler.future_actions: Vec<PostBootstrapAction>
    event_tx,         \* the DhtEvents sent, in order, each with the action
                      \* it was sent for
    timer,            \* DhtHandler.timer: the scheduled checks, in the
                      \* order they were scheduled
    aid_generator,    \* DhtHandler.aid_generator: the next ActionID
    routing_table,    \* DhtHandler.routing_table
    socket,           \* the requests sent whose answer is still awaited
    handled,          \* the event run_once handled last: the branch of
                      \* select! taken and the token or transaction id
    commands,         \* history: the StartBootstrap commands handled
    bootstrap_starts, \* history: ActionID -> calls of start_bootstrap
    sent,             \* the datagrams sent in the turn of run_once handled
                      \* last, in order
    read_only,        \* DhtHandler.read_only
    announce_port,    \* DhtHandler.announce_port
    token_store,      \* DhtHandler.token_store
    lookups           \* history: the StartLookup commands handled, each
                      \* named by the ActionID its handling generated

handlerVars ==
    <<running, bootstrapping, table_actions, future_actions, event_tx, timer,
      aid_generator, routing_table, socket, handled, commands,
      bootstrap_starts, sent, read_only, announce_port, token_store,
      lookups>>

vars == <<storageVars, handlerVars>>

(***************************************************************************)
(* ItemExpiration and AnnounceItem                                         *)
(***************************************************************************)
\* ItemExpiration::new: `inserted` is the clock at construction
ItemExpiration_new(info_hash, address, now) ==
    [address |-> address, inserted |-> now, info_hash |-> info_hash]

\* impl PartialEq for ItemExpiration: `inserted` is not compared
ItemExpiration_eq(x, y) ==
    x.address = y.address /\ x.info_hash = y.info_hash

\* is_expired with the boundary left out (> for >=)
is_expired_strict(e, now) ==
    now - e.inserted > EXPIRATION_TIME

\* ItemExpiration::is_expired
is_expired(e, now) ==
    now - e.inserted >= EXPIRATION_TIME

\* AnnounceItem::new.  An item wraps an ItemExpiration; the `inserted` of
\* that copy is never read (no accessor returns it and equality does not
\* compare it), so an item is its info hash and address.
AnnounceItem_new(info_hash, address) ==
    [address |-> address, info_hash |-> info_hash]

\* #[derive(PartialEq)] on AnnounceItem: compares the expirations
AnnounceItem_eq(x, y) ==
    ItemExpiration_eq(x, y)

(***************************************************************************)
(* AnnounceStorage: a store is [storage, expires]                          *)
(***************************************************************************)
\* AnnounceStorage::new
AnnounceStorage_new ==
    [storage |-> <<>>, expires |-> <<>>]

\* the number of leading entries of the queue that are expired
\* (iter().take_while(is_expired).count())
NumExpired(exp, curr_time) ==
    LET live == {i \in 1 .. Len(exp) : ~is_expired(exp[i], curr_time)}
    IN  IF live = {} THEN Len(exp)
        ELSE (CHOOSE i \in live : \A j \in live : i <= j) - 1

\* the hash map with k bound to v
MapInsert(m, k, v) ==
    [x \in DOMAIN m \cup {k} |-> IF x = k THEN v ELSE m[x]]

\* a `let` binding: F of a value that is computed once
Bind(x, F(_)) == F(x)

\* the info hash and address of an expiration: what its equality compares
KeyOf(e) ==
    [address |-> e.address, info_hash |-> e.info_hash]

\* AnnounceStorage::remove_expired_items.  The first n entries of the queue
\* are drained; for each, the loop drops from its info hash's list every
\* contact equal to it and removes the key once the list is empty.  The
\* loop's effect is computed in one pass: a list keeps the contacts equal
\* to no drained entry, and a key of a drained entry goes when its list is
\* left empty.
remove_expired_items(st, curr_time) ==
    LET n == NumExpired(st.expires, curr_time)
        drained == {KeyOf(st.expires[i]) : i \in 1 .. n}
        hashes == {k.info_hash : k \in drained}
        kept(h) == SelectSeq(st.storage[h], LAMBDA a : KeyOf(a) \notin drained)
        gone == {h \in DOMAIN st.storage \cap hashes : kept(h) = <<>>}
    IN  IF n = 0 THEN st
        ELSE [storage |-> [h \in DOMAIN st.storage \ gone |->
                            IF h \in hashes THEN kept(h) ELSE st.storage[h]],
              expires |-> SubSeq(st.expires, n + 1, Len(st.expires))]

\* insert_contact with the capacity test off by one (<= for <)
insert_contact_le(st, item) ==
    LET h == item.info_hash
        already_in_list ==
            IF h \in DOMAIN st.storage
            THEN \E i \in 1 .. Len(st.storage[h]) :
                    AnnounceItem_eq(st.storage[h][i], item)
            ELSE FALSE
        room == Len(st.expires) <= MAX_ITEMS_STORED
    IN  IF ~already_in_list /\ room
        THEN [st  |-> [st EXCEPT !.storage =
                        IF h \in DOMAIN st.storage
                        THEN [st.storage EXCEPT ![h] = Append(@, item)]
                        ELSE MapInsert(st.storage, h, <<item>>)],
              res |-> "SomeFalse"]
        ELSE IF ~already_in_list
        THEN [st |-> st, res |-> "None"]
        ELSE [st |-> st, res |-> "SomeTrue"]

\* insert_contact that places the contact in the list before it finds
\* that there is no room
insert_contact_early(st, item) ==
    LET h == item.info_hash
        already_in_list ==
            IF h \in DOMAIN st.storage
            THEN \E i \in 1 .. Len(st.storage[h]) :
                    AnnounceItem_eq(st.storage[h][i], item)
            ELSE FALSE
        room == Len(st.expires) < MAX_ITEMS_STORED
        placed == [st EXCEPT !.storage =
                        IF h \in DOMAIN st.storage
                        THEN [st.storage EXCEPT ![h] = Append(@, item)]
                        ELSE MapInsert(st.storage, h, <<item>>)]
    IN  IF ~already_in_list /\ room
        THEN [st |-> placed, res |-> "SomeFalse"]
        ELSE IF ~already_in_list
        THEN [st |-> placed, res |-> "None"]
        ELSE [st |-> st, res |-> "SomeTrue"]

\* insert_contact that refuses a contact it already has when there is no
\* room ((true, false) => None)
insert_contact_norenew(st, item) ==
    LET h == item.info_hash
        already_in_list ==
            IF h \in DOMAIN st.storage
            THEN \E i \in 1 .. Len(st.storage[h]) :
                    AnnounceItem_eq(st.storage[h][i], item)
            ELSE FALSE
        room == Len(st.expires) < MAX_ITEMS_STORED
    IN  IF ~already_in_list /\ room
        THEN [st  |-> [st EXCEPT !.storage =
                        IF h \in DOMAIN st.storage
                        THEN [st.storage EXCEPT ![h] = Append(@, item)]
                        ELSE MapInsert(st.storage, h, <<item>>)],
              res |-> "SomeFalse"]
        ELSE IF ~room
        THEN [st |-> st, res |-> "None"]
        ELSE [st |-> st, res |-> "SomeTrue"]

\* AnnounceStorage::insert_contact: the store and None / Some(true) /
\* Some(false)
insert_contact(st, item) ==
    LET h == item.info_hash
        already_in_list ==
            IF h \in DOMAIN st.storage
            THEN \E i \in 1 .. Len(st.storage[h]) :
                    AnnounceItem_eq(st.storage[h][i], item)
            ELSE FALSE
        room == Len(st.expires) < MAX_ITEMS_STORED
    IN  IF ~already_in_list /\ room
        THEN [st  |-> [st EXCEPT !.storage =
                        IF h \in DOMAIN st.storage
                        THEN [st.storage EXCEPT ![h] = Append(@, item)]
                        ELSE MapInsert(st.storage, h, <<item>>)],
              res |-> "SomeFalse"]
        ELSE IF ~already_in_list
        THEN [st |-> st, res |-> "None"]
        ELSE [st |-> st, res |-> "SomeTrue"]

\* add that leaves the expiration of a contact it already has where it is
add_stale(st, info_hash, address, curr_time, now) ==
    LET purged == remove_expired_items(st, curr_time)
        item == AnnounceItem_new(info_hash, address)
        item_expiration == ItemExpiration_new(info_hash, address, now)
        ins == insert_contact(purged, item)
    IN  CASE ins.res = "SomeTrue" ->
                [st |-> ins.st, res |-> TRUE]
          [] ins.res = "SomeFalse" ->
                [st  |-> [ins.st EXCEPT !.expires = Append(@, item_expiration)],
                 res |-> TRUE]
          [] OTHER ->
                [st |-> ins.st, res |-> FALSE]

\* add that tests the capacity before the expired entries are purged
add_latepurge(st, info_hash, address, curr_time, now) ==
    LET item == AnnounceItem_new(info_hash, address)
        item_expiration == ItemExpiration_new(info_hash, address, now)
        ins == insert_contact(st, item)
        out ==
            CASE ins.res = "SomeTrue" ->
                    [st  |-> [ins.st EXCEPT !.expires =
                                Append(SelectSeq(@, LAMBDA i :
                                          ~ItemExpiration_eq(i, item_expiration)),
                                       item_expiration)],
                     res |-> TRUE]
              [] ins.res = "SomeFalse" ->
                    [st  |-> [ins.st EXCEPT !.expires =
                                Append(@, item_expiration)],
                     res |-> TRUE]
              [] OTHER ->
                    [st |-> ins.st, res |-> FALSE]
    IN  [st |-> remove_expired_items(out.st, curr_time), res |-> out.res]

\* add that renews a stored pair where it stands in the queue: the entry
\* gets the new time and keeps its place
add_inplace(st, info_hash, address, curr_time, now) ==
    LET purged == remove_expired_items(st, curr_time)
        item == AnnounceItem_new(info_hash, address)
        item_expiration == ItemExpiration_new(info_hash, address, now)
        ins == insert_contact(purged, item)
    IN  CASE ins.res = "SomeTrue" ->
                [st  |-> [ins.st EXCEPT !.expires =
                            [k \in 1 .. Len(@) |->
                                IF ItemExpiration_eq(@[k], item_expiration)
                                THEN item_expiration ELSE @[k]]],
                 res |-> TRUE]
          [] ins.res = "SomeFalse" ->
                [st  |-> [ins.st EXCEPT !.expires = Append(@, item_expiration)],
                 res |-> TRUE]
          [] OTHER ->
                [st |-> ins.st, res |-> FALSE]

\* an add that pushes the expiration of a pair it already holds without
\* dropping the old one from the queue
add_norenew(st, info_hash, address, curr_time, now) ==
    LET purged == remove_expired_items(st, curr_time)
        item == AnnounceItem_new(info_hash, address)
        item_expiration == ItemExpiration_new(info_hash, address, now)
        ins == insert_contact(purged, item)
    IN  CASE ins.res \in {"SomeTrue", "SomeFalse"} ->
                [st  |-> [ins.st EXCEPT !.expires = Append(@, item_expiration)],
                 res |-> TRUE]
          [] OTHER ->
                [st |-> ins.st, res |-> FALSE]

\* AnnounceStorage::add.  curr_time is the time the purge is made for, now
\* is the clock ItemExpiration::new reads.
add(st, info_hash, address, curr_time, now) ==
    LET purged == remove_expired_items(st, curr_time)
        item == AnnounceItem_new(info_hash, address)
        item_expiration == ItemExpiration_new(info_hash, address, now)
        ins == insert_contact(purged, item)
    IN  CASE ins.res = "SomeTrue" ->
                [st  |-> [ins.st EXCEPT !.expires =
                            Append(SelectSeq(@, LAMBDA i :
                                      ~ItemExpiration_eq(i, item_expiration)),
                                   item_expiration)],
                 res |-> TRUE]
          [] ins.res = "SomeFalse" ->
                [st  |-> [ins.st EXCEPT !.expires = Append(@, item_expiration)],
                 res |-> TRUE]
          [] OTHER ->
                [st |-> ins.st, res |-> FALSE]

\* find that does not purge the expired entries first
find_nopurge(st, info_hash, curr_time) ==
    [st    |-> st,
     items |-> IF info_hash \in DOMAIN st.storage
               THEN [i \in 1 .. Len(st.storage[info_hash]) |->
                        st.storage[info_hash][i].address]
               ELSE <<>>]

\* AnnounceStorage::find: the store and the addresses the iterator yields
find(st, info_hash, curr_time) ==
    LET purged == remove_expired_items(st, curr_time)
    IN  [st    |-> purged,
         items |-> IF info_hash \in DOMAIN purged.storage
                   THEN [i \in 1 .. Len(purged.storage[info_hash]) |->
                            purged.storage[info_hash][i].address]
                   ELSE <<>>]

\* the loop of the tests that fills a storage: add_item for the first n
\* addresses of the block, under one info hash
RECURSIVE FillLoop(_, _, _, _, _)
FillLoop(st, info_hash, i, n, now) ==
    IF i > n THEN st
    ELSE IF i = n THEN add(st, info_hash, i, now, now).st
    ELSE LET mid == (i + n) \div 2
             half == FillLoop(st, info_hash, i, mid, now)
         IN  IF Len(half.expires) >= 0   \* the first half is computed first
             THEN FillLoop(half, info_hash, mid + 1, n, now)
             ELSE half

(***************************************************************************)
(* The storage as a state machine                                          *)
(***************************************************************************)
Store == [storage |-> storage, expires |-> expires]

\* the pairs single add_item calls are made with: a pair of the filled
\* block, a pair past the block, and its address under the other info hash
ProbePairs ==
    {<<0, 1>>, <<0, MAX_ITEMS_STORED + 1>>, <<1, MAX_ITEMS_STORED + 1>>}

\* an accepted add_item made at time t is still in force at time now
InForce(t, now) ==
    t >= 0 /\ now - t < EXPIRATION_TIME

StorageInit ==
    /\ storage = AnnounceStorage_new.storage
    /\ expires = AnnounceStorage_new.expires
    /\ clock = 0
    /\ ret = [op |-> "new"]
    /\ accepted = [p \in ProbePairs |-> -1]
    /\ renewed = [p \in ProbePairs |-> FALSE]
    /\ filled = [count |-> 0, time |-> -1]

\* AnnounceStorage::add_item
AddItem(h, a) ==
    LET r == add(Store, h, a, clock, clock)
    IN  /\ storage' = r.st.storage
        /\ expires' = r.st.expires
        /\ ret' = [op |-> "add_item", info_hash |-> h, address |-> a,
                   res |-> r.res]
        /\ accepted' = IF r.res THEN [accepted EXCEPT ![<<h, a>>] = clock]
                       ELSE accepted
        /\ renewed' = IF r.res /\ accepted[<<h, a>>] < clock
                      THEN [renewed EXCEPT ![<<h, a>>] =
                                InForce(accepted[<<h, a>>], clock)]
                      ELSE renewed
        /\ UNCHANGED <<clock, filled, handlerVars>>

\* AnnounceStorage::find_items
FindItems(h) ==
    LET r == find(Store, h, clock)
    IN  /\ storage' = r.st.storage
        /\ expires' = r.st.expires
        /\ ret' = [op |-> "find_items", info_hash |-> h, items |-> r.items]
        /\ UNCHANGED <<clock, accepted, renewed, filled, handlerVars>>

\* the tests' fill of a new storage: add_item for the first n addresses of
\* the block under info hash 0, every call returning true
FillStorage(n) ==
    /\ ret.op = "new"
    /\ LET st == FillLoop(Store, 0, 1, n, clock)
       IN  /\ storage' = st.storage
           /\ expires' = st.expires
    /\ ret' = [op |-> "fill", count |-> n]
    /\ accepted' = [accepted EXCEPT ![<<0, 1>>] = clock]
    /\ filled' = [count |-> n, time |-> clock]
    /\ UNCHANGED <<clock, renewed, handlerVars>>

\* the monotonic clock moves on to a later instant
Tick(t) ==
    /\ t > clock
    /\ clock' = t
    /\ ret' = IF ret.op = "new" THEN ret ELSE [op |-> "tick"]
    /\ UNCHANGED <<storage, expires, accepted, renewed, filled, handlerVars>>

StorageNext ==
    \/ \E p \in ProbePairs : AddItem(p[1], p[2])
    \/ \E h \in InfoHashes : FindItems(h)
    \/ \E n \in FillCounts : FillStorage(n)
    \/ \E t \in Instants : Tick(t)

(***************************************************************************)
(* Program constants of worker/handler.rs and of the routing table         *)
(***************************************************************************)
MAX_BOOTSTRAP_ATTEMPTS == 3

BOOTSTRAP_GOOD_NODE_THRESHOLD == 10

\* routing::table::MAX_BUCKETS: the number of bootstrap phases
MAX_BUCKETS == 160

(***************************************************************************)
(* Bounds of the handler model                                             *)
(***************************************************************************)
\* the StartBootstrap commands sent to the handler
MaxBootstraps == 2

\* the StartLookup commands sent to the handler
MaxLookups == 1

\* the firings of the table refresh
MaxRefreshes == 2

\* the phases of a bootstrap whose timeouts are followed while requests
\* come in
MaxPhases == 1

\* the last requests of the refresh that are answered
MaxAnswered == 2

\* a datagram is received while no more than this many timer events wait
MaxTimer == 2

\* a SocketAddr
SocketAddr(ip, port) == [ip |-> ip, port |-> port]

\* the port the remote nodes listen on
NodePort == 6881

\* a router, a seed node and a further node
Router == SocketAddr("r", NodePort)

Node1 == SocketAddr("n1", NodePort)

Node2 == SocketAddr("n2", NodePort)

\* the remote addresses
RemoteAddrs == {Router, Node1, Node2}

\* the remote addresses in sequence: the order in which a StartBootstrap
\* names them, and the order of their XOR distance to an info hash
AddrOrder == <<Router, Node1, Node2>>

\* the addresses late answers come from
LateAddrs == {Node1}

\* StartBootstrap(routers, nodes)
RouterSets == {{}, {Router}}

SeedSets == {{}, {Node1}}

\* the nodes_v4 lists of the responses: the responses name no further node
NodeLists == {{}}

\* the peers of a torrent
Peer1 == SocketAddr("p1", NodePort)

Peer2 == SocketAddr("p2", NodePort)

\* the peers a get_peers response can name: every responder names the
\* first, and some the second as well
PeerSets == {{Peer1}, {Peer1, Peer2}}

\* StartLookup(info_hash, should_announce)
LookupHashes == {0}

AnnounceFlags == {FALSE, TRUE}

\* the token a remote node gives in a get_peers response
RemoteToken == <<0, "local">>

\* the transaction ids of stray responses: the first id of an action, and
\* bytes that are no transaction id
StrayIds == {<<aid, 0>> : aid \in 0 .. (MaxBootstraps + MaxLookups)}
            \cup {<<0>>}

\* the stray responses, which the router sends: a Response::Other, and a
\* Response::GetPeers with its values
StrayKinds ==
    {[kind |-> "Other", addr |-> Router, values |-> {}]}
    \cup {[kind |-> "GetPeers", addr |-> Router, values |-> v] :
             v \in PeerSets}

\* the good nodes of the table the handler is constructed with, other than
\* the remote addresses above: none, or as many as the threshold
ResidentGood == {0, BOOTSTRAP_GOOD_NODE_THRESHOLD}

\* the address the socket is bound to, an IPv4 address; the handler holds
\* the result of Socket::local_addr in its field local_addr, an Ok as the
\* set of this address and an Err as the empty set
Socket_local_addr == SocketAddr("local", NodePort)

\* the handler's fields as one value, for the functions that take &mut
\* self, at the start of a turn of run_once: nothing is sent yet
Handler ==
    [running |-> running, bootstrapping |-> bootstrapping,
     table_actions |-> table_actions, future_actions |-> future_actions,
     event_tx |-> event_tx, timer |-> timer, aid_generator |-> aid_generator,
     routing_table |-> routing_table, socket |-> socket,
     bootstrap_starts |-> bootstrap_starts, sent |-> <<>>,
     read_only |-> read_only, announce_port |-> announce_port,
     token_store |-> token_store, active_stores |-> Store,
     send_err |-> FALSE, local_addr |-> {Socket_local_addr}]

\* the state the handler is left in
Becomes(h) ==
    /\ running' = h.running
    /\ bootstrapping' = h.bootstrapping
    /\ table_actions' = h.table_actions
    /\ future_actions' = h.future_actions
    /\ event_tx' = h.event_tx
    /\ timer' = h.timer
    /\ aid_generator' = h.aid_generator
    /\ routing_table' = h.routing_table
    /\ socket' = h.socket
    /\ bootstrap_starts' = h.bootstrap_starts
    /\ sent' = h.sent
    /\ read_only' = h.read_only
    /\ announce_port' = h.announce_port
    /\ token_store' = h.token_store

(***************************************************************************)
(* Routing table, transaction ids, timer and socket, as the specification  *)
(* describes them                                                          *)
(***************************************************************************)
\* a table with no node at the remote addresses and k further good nodes
RoutingTable_new(k) ==
    [nodes |-> [a \in RemoteAddrs |-> "none"], resident |-> k,
     requested |-> {}]

\* a table with good nodes at some of the remote addresses
RoutingTable_with(good) ==
    [nodes |-> [a \in RemoteAddrs |-> IF a \in good THEN "good" ELSE "none"],
     resident |-> 0, requested |-> {}]

\* RoutingTable::add_node(Node::as_good(..)): the node is in the table and
\* good afterwards; it is a new Node, with no request of ours pending
add_node_good(table, addr) ==
    [table EXCEPT !.nodes[addr] = "good", !.requested = @ \ {addr}]

\* RoutingTable::find_node_mut and Node::local_request on the node it
\* finds: a request of ours to the node is pending
local_request(table, addr) ==
    IF table.nodes[addr] # "none"
    THEN [table EXCEPT !.requested = @ \cup {addr}]
    ELSE table

\* RoutingTable::add_node(Node::as_questionable(..)) for each node of a
\* list: a node the table does not hold is added as questionable, a node
\* it holds is left as it is
add_nodes_questionable(table, addrs) ==
    [table EXCEPT !.nodes =
        [a \in RemoteAddrs |->
            IF a \in addrs /\ table.nodes[a] = "none" THEN "questionable"
            ELSE table.nodes[a]]]

\* the ids of the nodes at the remote addresses, each as the set of the
\* bits (0 the most significant) in which it differs from the local id
NodeIds ==
    [a \in RemoteAddrs |->
        IF a = Router THEN {0}
        ELSE IF a = Node1 THEN {MAX_BUCKETS - 2}
        ELSE {MAX_BUCKETS - 2, MAX_BUCKETS - 1}]

\* NodeId::flip_bit on the local id, as the set of the bits in which the
\* result differs from the local id
flip_bit(index) == {index}

\* the XOR distance of two ids: the bits in which they differ
Distance(x, y) == (x \ y) \cup (y \ x)

\* the order of the distances: the most significant bit in which two
\* distances differ is set in the greater one
Closer(x, y) ==
    /\ x # y
    /\ \E b \in Distance(x, y) :
          /\ b \in y
          /\ \A c \in Distance(x, y) : b <= c

\* the length of the prefix an id has in common with the local id: the
\* bucket of a node, and the bucket the walk for a target starts at
common_prefix(id) == CHOOSE b \in id : \A c \in id : b <= c

\* the position of bucket i in the walk that starts at bucket p and goes
\* outward in alternating order: p, p - 1, p + 1, p - 2, p + 2, ...
WalkRank(i, p) ==
    IF i = p THEN 0
    ELSE IF i < p THEN 2 * (p - i) - 1
    ELSE 2 * (i - p)

\* Good before Questionable before Bad
StatusRank(status) ==
    IF status = "good" THEN 0
    ELSE IF status = "questionable" THEN 1
    ELSE 2

\* the order of closest_nodes(target) on the nodes of a table: Good before
\* Questionable before Bad, within a class in the order of the bucket walk
\* and within a bucket by ascending XOR distance to the target
YieldedBefore(table, target, a, b) ==
    \/ StatusRank(table.nodes[a]) < StatusRank(table.nodes[b])
    \/ /\ table.nodes[a] = table.nodes[b]
       /\ \/ WalkRank(common_prefix(NodeIds[a]), common_prefix(target))
               < WalkRank(common_prefix(NodeIds[b]), common_prefix(target))
          \/ /\ common_prefix(NodeIds[a]) = common_prefix(NodeIds[b])
             /\ Closer(Distance(NodeIds[a], target),
                       Distance(NodeIds[b], target))

\* the id of an info hash, as the set of the bits in which it differs from
\* the local id: by XOR distance to it the router is closer than the first
\* node, and the first node closer than the second
InfoHashId(info_hash) == {0, info_hash + 2}

\* RoutingTable::closest_nodes(target): the nodes of the table in the
\* order in which the walk yields them
closest_nodes(table, target) ==
    SortSeq(SelectSeq(AddrOrder, LAMBDA a : table.nodes[a] # "none"),
            LAMBDA a, b : YieldedBefore(table, target, a, b))

\* MIDGenerator::generate: the next transaction id of an action
generate(id_generator) ==
    [aid |-> id_generator.aid, seq |-> id_generator.seq]

\* Timer::schedule_in
schedule_in(h, check, trans_id) ==
    [h EXCEPT !.timer = Append(@, [check |-> check, trans_id |-> trans_id])]

\* Socket::send of a find_node request.  `installed` is history: the
\* action of the transaction id was registered when the request was sent.
send_find_node(h, addr, trans_id) ==
    LET m == [msg |-> "find_node", to |-> addr, trans_id |-> trans_id,
              installed |-> trans_id.aid \in DOMAIN h.table_actions]
    IN  [h EXCEPT !.socket = @ \cup {m}, !.sent = Append(@, m)]

\* Socket::send of the find_node request of the refresh; nothing is sent
\* when the send returns Err
send_refresh(h, addr, trans_id, target) ==
    LET m == [msg |-> "find_node", to |-> addr, trans_id |-> trans_id,
              installed |-> trans_id.aid \in DOMAIN h.table_actions,
              target |-> target]
    IN  IF h.send_err THEN h
        ELSE [h EXCEPT !.socket = @ \cup {m}, !.sent = Append(@, m)]

\* the seconds between two rotations of the token secret
TOKEN_ROTATION == 5 * 60

\* TokenStore::new: the current and the previous secret, and the time of
\* the last rotation
TokenStore_new ==
    [curr |-> 1, prev |-> 0, last_refresh |-> 0]

\* the lazy rotation a call of the token store starts with: after one
\* interval the current secret becomes the previous one, after two or more
\* both are new
TokenStore_refresh(ts, now) ==
    LET intervals == (now - ts.last_refresh) \div TOKEN_ROTATION
    IN  IF intervals <= 0 THEN ts
        ELSE IF intervals = 1
        THEN [curr |-> ts.curr + 1, prev |-> ts.curr, last_refresh |-> now]
        ELSE [curr |-> ts.curr + 2, prev |-> ts.curr + 1,
              last_refresh |-> now]

\* the 4 bytes of the token a secret gives an IP
Token_bytes(secret, ip) == <<secret, ip>>

\* Token::new: the bytes are a token when there are as many as a token has
Token_new(bytes) ==
    IF Len(bytes) = 2 THEN {bytes} ELSE {}

\* TokenStore::checkout
TokenStore_checkout(ts, ip, now) ==
    LET ts1 == TokenStore_refresh(ts, now)
    IN  [ts |-> ts1, token |-> Token_bytes(ts1.curr, ip)]

\* TokenStore::checkin
TokenStore_checkin(ts, ip, token, now) ==
    LET ts1 == TokenStore_refresh(ts, now)
    IN  [ts |-> ts1,
         res |-> token \in {Token_bytes(ts1.curr, ip),
                            Token_bytes(ts1.prev, ip)}]

\* Node::remote_request on the node of the table at an address, when there
\* is one: it has sent an unsolicited message just now and is good
remote_request(table, addr) ==
    IF addr \in RemoteAddrs /\ table.nodes[addr] # "none"
    THEN [table EXCEPT !.nodes[addr] = "good"]
    ELSE table

\* the IPs that are IPv6 addresses
Ipv6Ips == {"x6"}

is_ipv4(addr) == addr.ip \notin Ipv6Ips

is_ipv6(addr) == addr.ip \in Ipv6Ips

\* TransactionID::from_bytes: 8 bytes, the ActionID and the sequence
\* number, 4 bytes each
TransactionID_from_bytes(bytes) ==
    IF Len(bytes) = 2 THEN {[aid |-> bytes[1], seq |-> bytes[2]]} ELSE {}

\* TransactionID::as_ref
TransactionID_as_ref(trans_id) == <<trans_id.aid, trans_id.seq>>

(***************************************************************************)
(* The bootstrap procedure (worker/bootstrap.rs), as the specification     *)
(* describes it.  A phase asks every address of its batch to find_node,    *)
(* records each request in `pinged` and schedules a BootstrapTimeout for   *)
(* it.  `responded` tells that a request of the current phase has been     *)
(* answered.                                                               *)
(***************************************************************************)
TableBootstrap_new(aid, nodes, routers) ==
    [id_generator |-> [aid |-> aid, seq |-> 0],
     starting_nodes |-> nodes, starting_routers |-> routers,
     pinged |-> {}, bucket_cursor |-> 0, responded |-> FALSE]

TableBootstrap_is_router(b, addr) ==
    addr \in b.starting_routers

\* the requests of one phase, to the addresses of a sequence
RECURSIVE send_phase(_, _, _)
send_phase(h, b, addrs) ==
    IF addrs = <<>> THEN [h |-> h, b |-> b]
    ELSE LET trans_id == generate(b.id_generator)
             h1 == schedule_in(send_find_node(h, Head(addrs), trans_id),
                               "BootstrapTimeout", trans_id)
             b1 == [b EXCEPT !.id_generator.seq = @ + 1,
                             !.pinged = @ \cup {trans_id}]
         IN  send_phase(h1, b1, Tail(addrs))

\* TableBootstrap::start_bootstrap: phase 0 is started anew, with every
\* router and every seed; Idle when there is none
start_bootstrap(h, b) ==
    LET aid == b.id_generator.aid
        addrs == SelectSeq(AddrOrder,
                     LAMBDA a : a \in b.starting_routers \cup b.starting_nodes)
        b0 == [b EXCEPT !.pinged = {}, !.bucket_cursor = 0,
                        !.responded = FALSE]
        h0 == [h EXCEPT !.bootstrap_starts =
                  MapInsert(@, aid, IF aid \in DOMAIN @ THEN @[aid] + 1 ELSE 1)]
    IN  Bind(send_phase(h0, b0, addrs), LAMBDA r :
            [h |-> r.h, b |-> r.b,
             status |-> IF addrs = <<>> THEN "Idle" ELSE "Bootstrapping"])

\* the cursor advances to the next phase, which asks the nodes of the table
\* that are not routers.  While the table holds none, no phase has anyone
\* to ask and the cursor runs to MAX_BUCKETS.
next_phase(h, b) ==
    LET next == b.bucket_cursor + 1
        addrs == SelectSeq(closest_nodes(h.routing_table, flip_bit(next)),
                     LAMBDA a : ~TableBootstrap_is_router(b, a))
    IN  IF next >= MAX_BUCKETS \/ addrs = <<>>
        THEN [h |-> h, b |-> [b EXCEPT !.bucket_cursor = MAX_BUCKETS],
              status |-> "Completed"]
        ELSE Bind(send_phase(h, [b EXCEPT !.bucket_cursor = next,
                                          !.responded = FALSE], addrs),
                  LAMBDA r : [h |-> r.h, b |-> r.b, status |-> "Bootstrapping"])

\* TableBootstrap::recv_response
recv_response(h, b, trans_id) ==
    LET b1 == [b EXCEPT !.pinged = @ \ {trans_id},
                        !.responded = @ \/ trans_id \in b.pinged]
    IN  IF b1.pinged = {} THEN next_phase(h, b1)
        ELSE [h |-> h, b |-> b1, status |-> "Bootstrapping"]

\* TableBootstrap::recv_timeout: Failed when the phase ends with none of
\* its requests answered and no good node in the table
recv_timeout(h, b, trans_id) ==
    LET b1 == [b EXCEPT !.pinged = @ \ {trans_id}]
    IN  IF b1.pinged # {} THEN [h |-> h, b |-> b1, status |-> "Bootstrapping"]
        ELSE IF ~b1.responded /\ h.routing_table.resident = 0
                /\ \A a \in RemoteAddrs : h.routing_table.nodes[a] # "good"
             THEN [h |-> h, b |-> b1, status |-> "Failed"]
             ELSE next_phase(h, b1)

(***************************************************************************)
(* The refresh procedure (worker/refresh.rs)                               *)
(***************************************************************************)
\* TableRefresh::new, its generator having issued the first transaction id
TableRefresh_new(aid) ==
    [id_generator |-> [aid |-> aid, seq |-> 1], curr_refresh_bucket |-> 0]

\* a continue_refresh without the wrap of the cursor at MAX_BUCKETS
continue_refresh_nowrap(h, refresh) ==
    LET bucket == refresh.curr_refresh_bucket
        target_id == flip_bit(bucket)
        found == SelectSeq(closest_nodes(h.routing_table, target_id),
                     LAMBDA a : h.routing_table.nodes[a] = "questionable")
        trans_id == generate(refresh.id_generator)
        h1 == IF found # <<>>
              THEN [send_refresh(h, Head(found), trans_id, target_id)
                       EXCEPT !.routing_table =
                                  local_request(@, Head(found))]
              ELSE h
    IN  [h |-> schedule_in(h1, "TableRefresh",
                           [aid |-> refresh.id_generator.aid, seq |-> 0]),
         refresh |-> [refresh EXCEPT
                         !.id_generator.seq = IF found # <<>> THEN @ + 1 ELSE @,
                         !.curr_refresh_bucket = bucket + 1]]

\* a continue_refresh that returns at once when no node is questionable
continue_refresh_idle(h, refresh) ==
    LET bucket == IF refresh.curr_refresh_bucket = MAX_BUCKETS THEN 0
                  ELSE refresh.curr_refresh_bucket
        target_id == flip_bit(bucket)
        found == SelectSeq(closest_nodes(h.routing_table, target_id),
                     LAMBDA a : h.routing_table.nodes[a] = "questionable")
        trans_id == generate(refresh.id_generator)
    IN  IF found = <<>> THEN [h |-> h, refresh |-> refresh]
        ELSE [h |-> schedule_in(
                        [send_refresh(h, Head(found), trans_id, target_id)
                            EXCEPT !.routing_table =
                                       local_request(@, Head(found))],
                        "TableRefresh",
                        [aid |-> refresh.id_generator.aid, seq |-> 0]),
              refresh |-> [refresh EXCEPT
                              !.id_generator.seq = @ + 1,
                              !.curr_refresh_bucket = bucket + 1]]

\* a continue_refresh that does not schedule the next refresh
continue_refresh_once(h, refresh) ==
    LET bucket == IF refresh.curr_refresh_bucket = MAX_BUCKETS THEN 0
                  ELSE refresh.curr_refresh_bucket
        target_id == flip_bit(bucket)
        found == SelectSeq(closest_nodes(h.routing_table, target_id),
                     LAMBDA a : h.routing_table.nodes[a] = "questionable")
        trans_id == generate(refresh.id_generator)
        h1 == IF found # <<>>
              THEN [send_refresh(h, Head(found), trans_id, target_id)
                       EXCEPT !.routing_table =
                                  local_request(@, Head(found))]
              ELSE h
    IN  [h |-> h1,
         refresh |-> [refresh EXCEPT
                         !.id_generator.seq = IF found # <<>> THEN @ + 1 ELSE @,
                         !.curr_refresh_bucket = bucket + 1]]

\* a continue_refresh that asks the first node closest_nodes yields,
\* whatever its status
continue_refresh_any(h, refresh) ==
    LET bucket == IF refresh.curr_refresh_bucket = MAX_BUCKETS THEN 0
                  ELSE refresh.curr_refresh_bucket
        target_id == flip_bit(bucket)
        found == closest_nodes(h.routing_table, target_id)
        trans_id == generate(refresh.id_generator)
        h1 == IF found # <<>>
              THEN [send_refresh(h, Head(found), trans_id, target_id)
                       EXCEPT !.routing_table =
                                  local_request(@, Head(found))]
              ELSE h
    IN  [h |-> schedule_in(h1, "TableRefresh",
                           [aid |-> refresh.id_generator.aid, seq |-> 0]),
         refresh |-> [refresh EXCEPT
                         !.id_generator.seq = IF found # <<>> THEN @ + 1 ELSE @,
                         !.curr_refresh_bucket = bucket + 1]]

\* TableRefresh::continue_refresh: the cursor wraps, the first
\* questionable node in the order of the distance to the target is asked
\* and marked as requested, whether the send succeeds or not, the next
\* refresh is scheduled and the cursor advances
continue_refresh(h, refresh) ==
    LET bucket == IF refresh.curr_refresh_bucket = MAX_BUCKETS THEN 0
                  ELSE refresh.curr_refresh_bucket
        target_id == flip_bit(bucket)
        found == SelectSeq(closest_nodes(h.routing_table, target_id),
                     LAMBDA a : h.routing_table.nodes[a] = "questionable")
        trans_id == generate(refresh.id_generator)
        h1 == IF found # <<>>
              THEN [send_refresh(h, Head(found), trans_id, target_id)
                       EXCEPT !.routing_table =
                                  local_request(@, Head(found))]
              ELSE h
    IN  [h |-> schedule_in(h1, "TableRefresh",
                           [aid |-> refresh.id_generator.aid, seq |-> 0]),
         refresh |-> [refresh EXCEPT
                         !.id_generator.seq = IF found # <<>> THEN @ + 1 ELSE @,
                         !.curr_refresh_bucket = bucket + 1]]

(***************************************************************************)
(* The lookup procedure (worker/lookup.rs), as the specification describes *)
(* it.  The shortlist gives each remote address its state in the lookup;   *)
(* `active` holds the probes in flight.  `cmd` is history: the StartLookup *)
(* command the lookup was made for.                                        *)
(***************************************************************************)
\* the probes in flight at a time
LOOKUP_ALPHA == 3

\* the closest nodes a lookup keeps
LOOKUP_K == 8

\* the first n elements of a sequence
Take(seq, n) ==
    SubSeq(seq, 1, IF Len(seq) < n THEN Len(seq) ELSE n)

\* Socket::send of a get_peers request
send_get_peers(h, addr, trans_id, info_hash) ==
    LET m == [msg |-> "get_peers", to |-> addr, trans_id |-> trans_id,
              info_hash |-> info_hash,
              installed |-> trans_id.aid \in DOMAIN h.table_actions]
    IN  [h EXCEPT !.socket = @ \cup {m}, !.sent = Append(@, m)]

\* Expand: while fewer than LOOKUP_ALPHA probes are in flight, the closest
\* entry not yet queried is asked and a LookupTimeout scheduled for it
RECURSIVE TableLookup_expand(_, _)
TableLookup_expand(h, l) ==
    LET idle == SelectSeq(Take(AddrOrder, LOOKUP_K),
                          LAMBDA a : l.shortlist[a] = "Idle")
    IN  IF l.endgame \/ idle = <<>> \/ Cardinality(l.active) >= LOOKUP_ALPHA
        THEN [h |-> h, l |-> l]
        ELSE LET trans_id == generate(l.id_generator)
                 h1 == schedule_in(
                           send_get_peers(h, Head(idle), trans_id,
                                          l.info_hash),
                           "LookupTimeout", trans_id)
                 l1 == [l EXCEPT
                           !.id_generator.seq = @ + 1,
                           !.shortlist[Head(idle)] = "Requested",
                           !.active = @ \cup {[trans_id |-> trans_id,
                                               to |-> Head(idle)]}]
             IN  TableLookup_expand(h1, l1)

\* Termination: every known node has responded or failed and no probe is
\* in flight: the endgame is entered and one LookupEndGame scheduled
TableLookup_endgame(h, l) ==
    IF ~l.endgame /\ l.active = {}
       /\ \A a \in RemoteAddrs :
              l.shortlist[a] \in {"absent", "Responded", "Failed"}
    THEN LET trans_id == generate(l.id_generator)
         IN  [h |-> schedule_in(h, "LookupEndGame", trans_id),
              l |-> [l EXCEPT !.endgame = TRUE, !.id_generator.seq = @ + 1]]
    ELSE [h |-> h, l |-> l]

\* TableLookup::new: the shortlist is seeded from the table and expanded
TableLookup_new(h, info_hash, aid, should_announce, cmd) ==
    LET seed == Take(closest_nodes(h.routing_table,
                                   InfoHashId(info_hash)), LOOKUP_K)
        l == [id_generator |-> [aid |-> aid, seq |-> 0],
              info_hash |-> info_hash, should_announce |-> should_announce,
              shortlist |-> [a \in RemoteAddrs |->
                                IF \E i \in 1 .. Len(seed) : seed[i] = a
                                THEN "Idle" ELSE "absent"],
              tokens |-> <<>>, values_seen |-> {}, active |-> {},
              endgame |-> FALSE, cmd |-> cmd]
    IN  Bind(TableLookup_expand(h, l),
             LAMBDA e : TableLookup_endgame(e.h, e.l))

\* the order peer addresses are reported in
PeerOrder == <<Peer1, Peer2>>

\* TableLookup::recv_response: the sender has responded, its token is
\* kept, the nodes it names join the shortlist, and the peers not yet seen
\* are reported: Values(new) when there are some, Searching otherwise
TableLookup_recv_response(h, l, addr, trans_id, g) ==
    LET new == SelectSeq(PeerOrder,
                   LAMBDA p : p \in g.values /\ p \notin l.values_seen)
        l1 == [l EXCEPT
                  !.active = {p \in @ : p.trans_id # trans_id},
                  !.shortlist =
                      [a \in RemoteAddrs |->
                          IF a = addr THEN "Responded"
                          ELSE IF a \in g.nodes /\ @[a] = "absent" THEN "Idle"
                          ELSE @[a]],
                  !.tokens = IF g.token = {} THEN @
                             ELSE MapInsert(@, addr, g.token),
                  !.values_seen = @ \cup g.values]
    IN  Bind(TableLookup_expand(h, l1), LAMBDA e :
        Bind(TableLookup_endgame(e.h, e.l), LAMBDA f :
            [h |-> f.h, l |-> f.l,
             status |-> IF new # <<>> THEN "Values" ELSE "Searching",
             values |-> new]))

\* TableLookup::recv_timeout: the probe has failed
TableLookup_recv_timeout(h, l, trans_id) ==
    LET failed == {p.to : p \in {q \in l.active : q.trans_id = trans_id}}
        l1 == [l EXCEPT
                  !.active = {p \in @ : p.trans_id # trans_id},
                  !.shortlist =
                      [a \in RemoteAddrs |->
                          IF a \in failed /\ @[a] = "Requested" THEN "Failed"
                          ELSE @[a]]]
    IN  Bind(TableLookup_expand(h, l1), LAMBDA e :
        Bind(TableLookup_endgame(e.h, e.l), LAMBDA f :
            [h |-> f.h, l |-> f.l, status |-> "Searching",
             values |-> <<>>]))

\* the announce_peer requests of a finished lookup, to the nodes of a
\* sequence
RECURSIVE send_announces(_, _, _, _)
send_announces(h, l, addrs, port) ==
    IF addrs = <<>> THEN [h |-> h, l |-> l]
    ELSE LET trans_id == generate(l.id_generator)
             m == [msg |-> "announce_peer", to |-> Head(addrs),
                   trans_id |-> trans_id, info_hash |-> l.info_hash,
                   token |-> l.tokens[Head(addrs)], port |-> port]
         IN  send_announces([h EXCEPT !.sent = Append(@, m)],
                            [l EXCEPT !.id_generator.seq = @ + 1],
                            Tail(addrs), port)

\* TableLookup::recv_finished: a lookup that is to announce sends
\* announce_peer to every node that responded with a token, with the
\* announce port or, when there is none, the implied port
TableLookup_recv_finished(h, l, port) ==
    LET addrs == SelectSeq(AddrOrder,
                     LAMBDA a : /\ l.shortlist[a] = "Responded"
                                /\ a \in DOMAIN l.tokens)
    IN  Bind(IF l.should_announce THEN send_announces(h, l, addrs, port)
             ELSE [h |-> h, l |-> l],
             LAMBDA r : [h |-> r.h, l |-> r.l, status |-> "Completed",
                         values |-> <<>>])

(***************************************************************************)
(* The handler (worker/handler.rs)                                         *)
(***************************************************************************)
\* DhtHandler::new: the refresh is the first action to run after bootstrap
\* An Option<u16> is the set of its values: none or one.
DhtHandler_new(table, ro, port) ==
    [running |-> TRUE, bootstrapping |-> FALSE, table_actions |-> <<>>,
     future_actions |-> <<[action |-> "Refresh",
                           refresh |-> TableRefresh_new(0),
                           trans_id |-> [aid |-> 0, seq |-> 0]]>>,
     event_tx |-> <<>>, timer |-> <<>>, aid_generator |-> 1,
     routing_table |-> table, socket |-> {}, bootstrap_starts |-> <<>>,
     sent |-> <<>>, read_only |-> ro, announce_port |-> port,
     token_store |-> TokenStore_new, active_stores |-> AnnounceStorage_new,
     send_err |-> FALSE, local_addr |-> {Socket_local_addr}]

\* event_tx.send(..)
send_event(h, event, action_id) ==
    [h EXCEPT !.event_tx =
        Append(@, [event |-> event, action_id |-> action_id])]

shutdown(h) ==
    [h EXCEPT !.running = FALSE]

num_good_nodes(table) ==
    table.resident + Cardinality({a \in RemoteAddrs : table.nodes[a] = "good"})

\* should_rebootstrap with the threshold left out (< for <=)
should_rebootstrap_below(table) ==
    num_good_nodes(table) < BOOTSTRAP_GOOD_NODE_THRESHOLD

should_rebootstrap(table) ==
    num_good_nodes(table) <= BOOTSTRAP_GOOD_NODE_THRESHOLD

\* attempt_rebootstrap with the bound on the attempts passed by one
RECURSIVE attempt_rebootstrap_late(_, _, _)
attempt_rebootstrap_late(h, b, attempts) ==
    IF attempts + 1 > MAX_BOOTSTRAP_ATTEMPTS
    THEN [h |-> h, b |-> b, attempts |-> attempts + 1,
          res |-> IF num_good_nodes(h.routing_table) = 0 THEN "None"
                  ELSE "SomeFalse"]
    ELSE Bind(start_bootstrap(h, b), LAMBDA s :
             LET out(res) == [h |-> s.h, b |-> s.b,
                              attempts |-> attempts + 1, res |-> res]
             IN  CASE s.status = "Idle" -> out("SomeFalse")
                   [] s.status = "Bootstrapping" -> out("SomeTrue")
                   [] s.status = "Failed" -> out("None")
                   [] s.status = "Completed" ->
                        IF ~should_rebootstrap(s.h.routing_table)
                        THEN out("SomeFalse")
                        ELSE attempt_rebootstrap_late(s.h, s.b, attempts + 1))

\* attempt_rebootstrap that gives up at the last attempt whatever the
\* table holds
RECURSIVE attempt_rebootstrap_fatal(_, _, _)
attempt_rebootstrap_fatal(h, b, attempts) ==
    IF attempts + 1 >= MAX_BOOTSTRAP_ATTEMPTS
    THEN [h |-> h, b |-> b, attempts |-> attempts + 1, res |-> "None"]
    ELSE Bind(start_bootstrap(h, b), LAMBDA s :
             LET out(res) == [h |-> s.h, b |-> s.b,
                              attempts |-> attempts + 1, res |-> res]
             IN  CASE s.status = "Idle" -> out("SomeFalse")
                   [] s.status = "Bootstrapping" -> out("SomeTrue")
                   [] s.status = "Failed" -> out("None")
                   [] s.status = "Completed" ->
                        IF ~should_rebootstrap(s.h.routing_table)
                        THEN out("SomeFalse")
                        ELSE attempt_rebootstrap_fatal(s.h, s.b, attempts + 1))

\* attempt_rebootstrap: the loop, one turn per attempt.  None: the handler
\* is to shut down; SomeTrue: the bootstrap was started again; SomeFalse:
\* no rebootstrap
RECURSIVE attempt_rebootstrap(_, _, _)
attempt_rebootstrap(h, b, attempts) ==
    IF attempts + 1 >= MAX_BOOTSTRAP_ATTEMPTS
    THEN [h |-> h, b |-> b, attempts |-> attempts + 1,
          res |-> IF num_good_nodes(h.routing_table) = 0 THEN "None"
                  ELSE "SomeFalse"]
    ELSE Bind(start_bootstrap(h, b), LAMBDA s :
             LET out(res) == [h |-> s.h, b |-> s.b,
                              attempts |-> attempts + 1, res |-> res]
             IN  CASE s.status = "Idle" -> out("SomeFalse")
                   [] s.status = "Bootstrapping" -> out("SomeTrue")
                   [] s.status = "Failed" -> out("None")
                   [] s.status = "Completed" ->
                        IF ~should_rebootstrap(s.h.routing_table)
                        THEN out("SomeFalse")
                        ELSE attempt_rebootstrap(s.h, s.b, attempts + 1))

\* a handle_check_table_refresh that takes the refresh for finished after
\* the bucket it has just refreshed and removes it
handle_check_table_refresh_completes(h, trans_id) ==
    IF trans_id.aid \in DOMAIN h.table_actions
       /\ h.table_actions[trans_id.aid].kind = "Refresh"
    THEN Bind(continue_refresh(h, h.table_actions[trans_id.aid].refresh),
              LAMBDA r : [r.h EXCEPT
                             !.table_actions =
                                 [x \in DOMAIN @ \ {trans_id.aid} |-> @[x]]])
    ELSE h

\* DhtHandler::handle_check_table_refresh
handle_check_table_refresh(h, trans_id) ==
    IF trans_id.aid \in DOMAIN h.table_actions
       /\ h.table_actions[trans_id.aid].kind = "Refresh"
    THEN Bind(continue_refresh(h, h.table_actions[trans_id.aid].refresh),
              LAMBDA r : [r.h EXCEPT
                             !.table_actions[trans_id.aid].refresh = r.refresh])
    ELSE h

\* handle_start_lookup that builds the lookup, which sends its first
\* requests, and does not register it
handle_start_lookup_forget(h, info_hash, should_announce, cmd) ==
    LET action_id == h.aid_generator
        h0 == [h EXCEPT !.aid_generator = @ + 1]
    IN  IF h.bootstrapping
        THEN [h0 EXCEPT !.future_actions =
                 Append(@, [action |-> "Lookup", info_hash |-> info_hash,
                            should_announce |-> should_announce,
                            cmd |-> cmd])]
        ELSE TableLookup_new(h0, info_hash, action_id, should_announce,
                             cmd).h

\* DhtHandler::handle_start_lookup.  `cmd` is history: the StartLookup
\* command the lookup is for, named by the ActionID generated when the
\* command was handled.
handle_start_lookup(h, info_hash, should_announce, cmd) ==
    LET action_id == h.aid_generator
        h0 == [h EXCEPT !.aid_generator = @ + 1]
    IN  IF h.bootstrapping
        THEN [h0 EXCEPT !.future_actions =
                 Append(@, [action |-> "Lookup", info_hash |-> info_hash,
                            should_announce |-> should_announce,
                            cmd |-> cmd])]
        ELSE Bind(TableLookup_new(h0, info_hash, action_id, should_announce,
                                  cmd),
                  LAMBDA r : [r.h EXCEPT !.table_actions =
                                 MapInsert(@, action_id,
                                           [kind |-> "Lookup",
                                            lookup |-> r.l])])

\* the post bootstrap actions, in their order
RECURSIVE start_future_actions(_, _)
start_future_actions(h, actions) ==
    IF actions = <<>> THEN h
    ELSE LET a == Head(actions)
         IN  IF a.action = "Lookup"
             THEN start_future_actions(
                      handle_start_lookup(h, a.info_hash, a.should_announce,
                                          a.cmd),
                      Tail(actions))
             ELSE LET h1 == [h EXCEPT !.table_actions =
                               MapInsert(@, a.trans_id.aid,
                                         [kind |-> "Refresh",
                                          refresh |-> a.refresh])]
                  IN  start_future_actions(
                          handle_check_table_refresh(h1, a.trans_id),
                          Tail(actions))

\* broadcast_bootstrap_completed that leaves the bootstrap registered
broadcast_bootstrap_completed_keep(h, action_id) ==
    LET h1 == send_event(h, "BootstrapCompleted", action_id)
        h2 == [h1 EXCEPT !.bootstrapping = FALSE, !.future_actions = <<>>]
    IN  start_future_actions(h2, h.future_actions)

\* broadcast_bootstrap_completed that leaves the bootstrapping flag set
broadcast_bootstrap_completed_flag(h, action_id) ==
    LET h1 == send_event(h, "BootstrapCompleted", action_id)
        h2 == [h1 EXCEPT
                  !.table_actions =
                      [a \in DOMAIN @ \ {action_id} |-> @[a]],
                  !.future_actions = <<>>]
    IN  start_future_actions(h2, h.future_actions)

\* broadcast_bootstrap_completed that removes every registered action
broadcast_bootstrap_completed_clear(h, action_id) ==
    LET h1 == send_event(h, "BootstrapCompleted", action_id)
        h2 == [h1 EXCEPT
                  !.bootstrapping = FALSE,
                  !.table_actions = <<>>,
                  !.future_actions = <<>>]
    IN  start_future_actions(h2, h.future_actions)

\* DhtHandler::broadcast_bootstrap_completed
\* a broadcast_bootstrap_completed that checks the table refresh once more
\* after it has started the queued actions
broadcast_bootstrap_completed_tick(h, action_id) ==
    LET h1 == send_event(h, "BootstrapCompleted", action_id)
        h2 == [h1 EXCEPT
                  !.bootstrapping = FALSE,
                  !.table_actions =
                      [a \in DOMAIN @ \ {action_id} |-> @[a]],
                  !.future_actions = <<>>]
    IN  handle_check_table_refresh(
            start_future_actions(h2, h.future_actions),
            [aid |-> 0, seq |-> 0])

broadcast_bootstrap_completed(h, action_id) ==
    LET h1 == send_event(h, "BootstrapCompleted", action_id)
        h2 == [h1 EXCEPT
                  !.bootstrapping = FALSE,
                  !.table_actions =
                      [a \in DOMAIN @ \ {action_id} |-> @[a]],
                  !.future_actions = <<>>]
    IN  start_future_actions(h2, h.future_actions)

\* the bootstrap and its attempts of a registered TableAction::Bootstrap,
\* written back after a call that takes them by &mut
set_bootstrap(h, action_id, b, attempts) ==
    [h EXCEPT !.table_actions[action_id] =
        [kind |-> "Bootstrap", bootstrap |-> b, attempts |-> attempts]]

\* bootstrap_complete that sends BootstrapFailed and lets the handler run
bootstrap_complete_failed_runs(h, action_id, status) ==
    CASE status = "Idle" -> [h |-> h, complete |-> TRUE]
      [] status = "Bootstrapping" -> [h |-> h, complete |-> FALSE]
      [] status = "Failed" ->
            [h |-> send_event(h, "BootstrapFailed", action_id),
             complete |-> FALSE]
      [] status = "Completed" -> [h |-> h, complete |-> TRUE]

\* the match on the BootstrapStatus, which handle_start_bootstrap,
\* handle_incoming and handle_check_bootstrap_timeout each make on the
\* registered bootstrap: whether the bootstrap is complete
bootstrap_complete(h, action_id, status) ==
    CASE status = "Idle" -> [h |-> h, complete |-> TRUE]
      [] status = "Bootstrapping" -> [h |-> h, complete |-> FALSE]
      [] status = "Failed" ->
            [h |-> shutdown(send_event(h, "BootstrapFailed", action_id)),
             complete |-> FALSE]
      [] status = "Completed" ->
            IF should_rebootstrap(h.routing_table)
            THEN Bind(attempt_rebootstrap(
                          h, h.table_actions[action_id].bootstrap,
                          h.table_actions[action_id].attempts),
                      LAMBDA r :
                 Bind(set_bootstrap(r.h, action_id, r.b, r.attempts),
                      LAMBDA h1 :
                     IF r.res = "None"
                     THEN [h |-> shutdown(h1), complete |-> FALSE]
                     ELSE [h |-> h1, complete |-> r.res = "SomeFalse"]))
            ELSE [h |-> h, complete |-> TRUE]

\* DhtHandler::handle_start_bootstrap
handle_start_bootstrap(h, routers, nodes) ==
    LET action_id == h.aid_generator
        h0 == [h EXCEPT !.aid_generator = @ + 1]
    IN  Bind(start_bootstrap(h0, TableBootstrap_new(action_id, nodes, routers)),
             LAMBDA s :
        Bind(bootstrap_complete(
                 [s.h EXCEPT
                     !.bootstrapping = TRUE,
                     !.table_actions =
                         MapInsert(@, action_id,
                                   [kind |-> "Bootstrap", bootstrap |-> s.b,
                                    attempts |-> 0])],
                 action_id, s.status),
             LAMBDA c :
            IF c.complete THEN broadcast_bootstrap_completed(c.h, action_id)
            ELSE c.h))

\* DhtHandler::handle_incoming for a Response::Other from addr
handle_incoming_other(h, addr, trans_id, nodes_v4) ==
    LET action_id == trans_id.aid
        known == action_id \in DOMAIN h.table_actions
        h1 == [h EXCEPT !.routing_table =
                  add_nodes_questionable(@, nodes_v4)]
    IN  IF ~known THEN h1
        ELSE IF h.table_actions[action_id].kind = "Refresh"
        THEN [h1 EXCEPT !.routing_table = add_node_good(@, addr)]
        ELSE IF h.table_actions[action_id].kind = "Bootstrap"
        THEN LET a == h.table_actions[action_id]
                 h2 == IF ~TableBootstrap_is_router(a.bootstrap, addr)
                       THEN [h1 EXCEPT !.routing_table = add_node_good(@, addr)]
                       ELSE h1
             IN  Bind(recv_response(h2, a.bootstrap, trans_id), LAMBDA r :
                 Bind(bootstrap_complete(
                          set_bootstrap(r.h, action_id, r.b, a.attempts),
                          action_id, r.status),
                      LAMBDA c :
                     IF c.complete
                     THEN broadcast_bootstrap_completed(c.h, action_id)
                     ELSE c.h))
        ELSE h1

\* DhtHandler::handle_check_bootstrap_timeout
handle_check_bootstrap_timeout(h, trans_id) ==
    LET action_id == trans_id.aid
    IN  IF action_id \in DOMAIN h.table_actions
           /\ h.table_actions[action_id].kind = "Bootstrap"
        THEN LET a == h.table_actions[action_id]
             IN  Bind(recv_timeout(h, a.bootstrap, trans_id), LAMBDA r :
                 Bind(bootstrap_complete(
                          set_bootstrap(r.h, action_id, r.b, a.attempts),
                          action_id, r.status),
                      LAMBDA c :
                     IF c.complete
                     THEN broadcast_bootstrap_completed(c.h, action_id)
                     ELSE c.h))
        ELSE h

\* DhtEvent::PeerFound for each address of a sequence
RECURSIVE send_peers_found(_, _, _, _)
send_peers_found(h, action_id, l, values) ==
    IF values = <<>> THEN h
    ELSE send_peers_found(
             [h EXCEPT !.event_tx =
                 Append(@, [event |-> "PeerFound", action_id |-> action_id,
                            info_hash |-> l.info_hash, addr |-> Head(values),
                            cmd |-> l.cmd])],
             action_id, l, Tail(values))

\* the match on the LookupStatus, which handle_incoming,
\* handle_check_lookup_timeout and handle_check_lookup_endgame each make
lookup_status(h, action_id, l, status, values) ==
    CASE status = "Searching" -> h
      [] status = "Completed" ->
            [h EXCEPT !.event_tx =
                Append(@, [event |-> "LookupCompleted",
                           action_id |-> action_id,
                           info_hash |-> l.info_hash, cmd |-> l.cmd])]
      [] status = "Values" -> send_peers_found(h, action_id, l, values)

\* handle_incoming for a Response::GetPeers that reports every value of
\* the response
handle_incoming_get_peers_raw(h, addr, trans_id, g) ==
    LET action_id == trans_id.aid
        h1 == [h EXCEPT !.routing_table = add_node_good(@, addr)]
    IN  IF action_id \in DOMAIN h.table_actions
           /\ h.table_actions[action_id].kind = "Lookup"
        THEN Bind(TableLookup_recv_response(
                      h1, h.table_actions[action_id].lookup, addr, trans_id,
                      g),
                  LAMBDA r :
                 lookup_status(
                     [r.h EXCEPT !.table_actions[action_id].lookup = r.l],
                     action_id, r.l, "Values",
                     SelectSeq(PeerOrder, LAMBDA p : p \in g.values)))
        ELSE h1

\* DhtHandler::handle_incoming for a Response::GetPeers from addr
handle_incoming_get_peers(h, addr, trans_id, g) ==
    LET action_id == trans_id.aid
        h1 == [h EXCEPT !.routing_table = add_node_good(@, addr)]
    IN  IF action_id \in DOMAIN h.table_actions
           /\ h.table_actions[action_id].kind = "Lookup"
        THEN Bind(TableLookup_recv_response(
                      h1, h.table_actions[action_id].lookup, addr, trans_id,
                      g),
                  LAMBDA r :
                 lookup_status(
                     [r.h EXCEPT !.table_actions[action_id].lookup = r.l],
                     action_id, r.l, r.status, r.values))
        ELSE h1

\* a handle_check_lookup_timeout that schedules the check again when it
\* finds no lookup
handle_check_lookup_timeout_again(h, trans_id) ==
    LET action_id == trans_id.aid
    IN  IF action_id \in DOMAIN h.table_actions
           /\ h.table_actions[action_id].kind = "Lookup"
        THEN Bind(TableLookup_recv_timeout(
                      h, h.table_actions[action_id].lookup, trans_id),
                  LAMBDA r :
                 lookup_status(
                     [r.h EXCEPT !.table_actions[action_id].lookup = r.l],
                     action_id, r.l, r.status, r.values))
        ELSE schedule_in(h, "LookupTimeout", trans_id)

\* DhtHandler::handle_check_lookup_timeout
handle_check_lookup_timeout(h, trans_id) ==
    LET action_id == trans_id.aid
    IN  IF action_id \in DOMAIN h.table_actions
           /\ h.table_actions[action_id].kind = "Lookup"
        THEN Bind(TableLookup_recv_timeout(
                      h, h.table_actions[action_id].lookup, trans_id),
                  LAMBDA r :
                 lookup_status(
                     [r.h EXCEPT !.table_actions[action_id].lookup = r.l],
                     action_id, r.l, r.status, r.values))
        ELSE h

\* handle_check_lookup_endgame that looks the lookup up and leaves it
\* registered
handle_check_lookup_endgame_keep(h, trans_id) ==
    LET action_id == trans_id.aid
    IN  IF action_id \in DOMAIN h.table_actions
           /\ h.table_actions[action_id].kind = "Lookup"
        THEN Bind(TableLookup_recv_finished(
                      h, h.table_actions[action_id].lookup, h.announce_port),
                  LAMBDA r :
                 lookup_status(r.h, action_id, r.l, r.status, r.values))
        ELSE h

\* handle_check_lookup_endgame that removes the lookup and sends no event
handle_check_lookup_endgame_silent(h, trans_id) ==
    [h EXCEPT !.table_actions =
        [a \in DOMAIN @ \ {trans_id.aid} |-> @[a]]]

\* DhtHandler::handle_check_lookup_endgame: whatever is registered under
\* the action id is removed from table_actions
handle_check_lookup_endgame(h, trans_id) ==
    LET action_id == trans_id.aid
        h1 == [h EXCEPT !.table_actions =
                  [a \in DOMAIN @ \ {action_id} |-> @[a]]]
    IN  IF action_id \in DOMAIN h.table_actions
           /\ h.table_actions[action_id].kind = "Lookup"
        THEN Bind(TableLookup_recv_finished(
                      h1, h.table_actions[action_id].lookup, h.announce_port),
                  LAMBDA r :
                 lookup_status(r.h, action_id, r.l, r.status, r.values))
        ELSE h1

\* error_code::PROTOCOL_ERROR and error_code::SERVER_ERROR
PROTOCOL_ERROR == 203

SERVER_ERROR == 202

\* the value of an Option that is Some
Unwrap(opt) == CHOOSE x \in opt : TRUE

\* Socket::send of the answer to a request, to the address it came from;
\* nothing is sent when the send returns Err, which the handler only logs
send_reply(h, addr, transaction_id, body) ==
    IF h.send_err THEN h
    ELSE [h EXCEPT !.sent =
             Append(@, [msg |-> "reply", to |-> addr,
                        transaction_id |-> transaction_id, body |-> body])]

\* an OtherResponse
OtherResponse(nodes_v4, nodes_v6) ==
    [type |-> "Response", kind |-> "Other", nodes_v4 |-> nodes_v4,
     nodes_v6 |-> nodes_v6]

\* DhtHandler::handle_incoming for a Request::Ping from addr
handle_incoming_ping(h, message, addr) ==
    LET h1 == [h EXCEPT !.routing_table = remote_request(@, addr)]
    IN  send_reply(h1, addr, message.transaction_id,
                   OtherResponse(<<>>, <<>>))

\* DhtHandler::handle_incoming for a Request::FindNode from addr: a
\* request that does not say what it wants is answered for the family of
\* the socket's own address, and is not answered when local_addr() returns
\* Err
handle_incoming_find_node(h, message, addr) ==
    LET h1 == [h EXCEPT !.routing_table = remote_request(@, addr)]
        want == IF message.want # {} THEN Unwrap(message.want)
                ELSE IF is_ipv4(Unwrap(h.local_addr)) THEN "V4" ELSE "V6"
        closest == closest_nodes(h1.routing_table, message.target)
        nodes_v4 == IF want \in {"V4", "Both"}
                    THEN Take(SelectSeq(closest, is_ipv4), 8)
                    ELSE <<>>
        nodes_v6 == IF want \in {"V6", "Both"}
                    THEN Take(SelectSeq(closest, is_ipv6), 8)
                    ELSE <<>>
    IN  IF message.want = {} /\ h.local_addr = {} THEN h1
        ELSE send_reply(h1, addr, message.transaction_id,
                        OtherResponse(nodes_v4, nodes_v6))

\* a get_peers handling that makes the token for the IP of its own socket
handle_incoming_get_peers_request_local(h, message, addr, now) ==
    LET h1 == [h EXCEPT !.routing_table = remote_request(@, addr)]
        f == find(h1.active_stores, message.info_hash, now)
        values == SelectSeq(f.items, is_ipv4)
        nodes == Take(closest_nodes(h1.routing_table,
                                    InfoHashId(message.info_hash)), 8)
        c == TokenStore_checkout(h1.token_store, Socket_local_addr.ip, now)
        h2 == [h1 EXCEPT !.active_stores = f.st, !.token_store = c.ts]
    IN  send_reply(h2, addr, message.transaction_id,
                   [type |-> "Response", kind |-> "GetPeers",
                    values |-> values, nodes |-> nodes, token |-> c.token])

\* DhtHandler::handle_incoming for a Request::GetPeers from addr
handle_incoming_get_peers_request(h, message, addr, now) ==
    LET h1 == [h EXCEPT !.routing_table = remote_request(@, addr)]
        f == find(h1.active_stores, message.info_hash, now)
        values == SelectSeq(f.items, is_ipv4)
        nodes == Take(closest_nodes(h1.routing_table,
                                    InfoHashId(message.info_hash)), 8)
        c == TokenStore_checkout(h1.token_store, addr.ip, now)
        h2 == [h1 EXCEPT !.active_stores = f.st, !.token_store = c.ts]
    IN  send_reply(h2, addr, message.transaction_id,
                   [type |-> "Response", kind |-> "GetPeers",
                    values |-> values, nodes |-> nodes, token |-> c.token])

\* an announce_peer handling that stores the pair before it looks at the
\* token
handle_incoming_announce_peer_eager(h, message, addr, now) ==
    LET h1 == [h EXCEPT !.routing_table = remote_request(@, addr)]
        t == Token_new(message.token)
        c == IF t # {}
             THEN TokenStore_checkin(h1.token_store, addr.ip, Unwrap(t), now)
             ELSE [ts |-> h1.token_store, res |-> FALSE]
        is_valid == c.res
        connect_addr == IF message.port = {} THEN addr
                        ELSE [addr EXCEPT !.port = Unwrap(message.port)]
        h2 == [h1 EXCEPT !.token_store = c.ts]
        a == add(h2.active_stores, message.info_hash, connect_addr, now, now)
    IN  IF ~is_valid
        THEN send_reply([h2 EXCEPT !.active_stores = a.st], addr,
                        message.transaction_id,
                        [type |-> "Error", code |-> PROTOCOL_ERROR,
                         message |-> "received an invalid token"])
        ELSE IF a.res
        THEN send_reply([h2 EXCEPT !.active_stores = a.st], addr,
                        message.transaction_id, OtherResponse(<<>>, <<>>))
        ELSE send_reply([h2 EXCEPT !.active_stores = a.st], addr,
                        message.transaction_id,
                        [type |-> "Error", code |-> SERVER_ERROR,
                         message |-> "announce storage is full"])

\* an announce_peer handling that reports success whatever add_item
\* returns
handle_incoming_announce_peer_lenient(h, message, addr, now) ==
    LET h1 == [h EXCEPT !.routing_table = remote_request(@, addr)]
        t == Token_new(message.token)
        c == IF t # {}
             THEN TokenStore_checkin(h1.token_store, addr.ip, Unwrap(t), now)
             ELSE [ts |-> h1.token_store, res |-> FALSE]
        is_valid == c.res
        connect_addr == IF message.port = {} THEN addr
                        ELSE [addr EXCEPT !.port = Unwrap(message.port)]
        h2 == [h1 EXCEPT !.token_store = c.ts]
        a == add(h2.active_stores, message.info_hash, connect_addr, now, now)
    IN  IF ~is_valid
        THEN send_reply(h2, addr, message.transaction_id,
                        [type |-> "Error", code |-> PROTOCOL_ERROR,
                         message |-> "received an invalid token"])
        ELSE IF a.res
        THEN send_reply([h2 EXCEPT !.active_stores = a.st], addr,
                        message.transaction_id, OtherResponse(<<>>, <<>>))
        ELSE send_reply([h2 EXCEPT !.active_stores = a.st], addr,
                        message.transaction_id, OtherResponse(<<>>, <<>>))

\* DhtHandler::handle_incoming for a Request::AnnouncePeer from addr
handle_incoming_announce_peer(h, message, addr, now) ==
    LET h1 == [h EXCEPT !.routing_table = remote_request(@, addr)]
        t == Token_new(message.token)
        c == IF t # {}
             THEN TokenStore_checkin(h1.token_store, addr.ip, Unwrap(t), now)
             ELSE [ts |-> h1.token_store, res |-> FALSE]
        is_valid == c.res
        connect_addr == IF message.port = {} THEN addr
                        ELSE [addr EXCEPT !.port = Unwrap(message.port)]
        h2 == [h1 EXCEPT !.token_store = c.ts]
        a == add(h2.active_stores, message.info_hash, connect_addr, now, now)
    IN  IF ~is_valid
        THEN send_reply(h2, addr, message.transaction_id,
                        [type |-> "Error", code |-> PROTOCOL_ERROR,
                         message |-> "received an invalid token"])
        ELSE IF a.res
        THEN send_reply([h2 EXCEPT !.active_stores = a.st], addr,
                        message.transaction_id, OtherResponse(<<>>, <<>>))
        ELSE send_reply([h2 EXCEPT !.active_stores = a.st], addr,
                        message.transaction_id,
                        [type |-> "Error", code |-> SERVER_ERROR,
                         message |-> "announce storage is full"])

\* the response validation that takes every transaction id that parses
valid_response_parsed(h, message) ==
    TransactionID_from_bytes(message.transaction_id) # {}

\* the response validation of handle_incoming: the transaction id is one
\* of ours, and the kind of the response is the kind the action registered
\* under its ActionID takes
valid_response(h, message) ==
    LET t == TransactionID_from_bytes(message.transaction_id)
    IN  /\ t # {}
        /\ Unwrap(t).aid \in DOMAIN h.table_actions
        /\ LET kind == h.table_actions[Unwrap(t).aid].kind
           IN  \/ kind = "Lookup" /\ message.kind = "GetPeers"
               \/ kind = "Refresh" /\ message.kind = "Other"
               \/ kind = "Bootstrap" /\ message.kind = "Other"

\* a handle_incoming that processes nothing when the handler is read only
handle_incoming_read_only_all(h, message, addr, now) ==
    IF message.type = "Invalid" THEN h
    ELSE IF message.type = "Response" /\ ~valid_response(h, message) THEN h
    ELSE IF h.read_only THEN h
    ELSE LET trans_id ==
                 Unwrap(TransactionID_from_bytes(message.transaction_id))
         IN  CASE message.type = "Request" /\ message.kind = "Ping" ->
                     handle_incoming_ping(h, message, addr)
               [] message.type = "Request" /\ message.kind = "FindNode" ->
                     handle_incoming_find_node(h, message, addr)
               [] message.type = "Request" /\ message.kind = "GetPeers" ->
                     handle_incoming_get_peers_request(h, message, addr, now)
               [] message.type = "Request" /\ message.kind = "AnnouncePeer" ->
                     handle_incoming_announce_peer(h, message, addr, now)
               [] message.type = "Response" /\ message.kind = "Other" ->
                     handle_incoming_other(h, addr, trans_id,
                                           message.nodes_v4)
               [] message.type = "Response" /\ message.kind = "GetPeers" ->
                     handle_incoming_get_peers(h, addr, trans_id, message)
               [] message.type = "Error" -> h

\* DhtHandler::handle_incoming.  A buffer that Message::decode refuses is
\* a message of type Invalid.
handle_incoming(h, message, addr, now) ==
    IF message.type = "Invalid" THEN h
    ELSE IF message.type = "Response" /\ ~valid_response(h, message) THEN h
    ELSE IF h.read_only /\ message.type = "Request" THEN h
    ELSE LET trans_id ==
                 Unwrap(TransactionID_from_bytes(message.transaction_id))
         IN  CASE message.type = "Request" /\ message.kind = "Ping" ->
                     handle_incoming_ping(h, message, addr)
               [] message.type = "Request" /\ message.kind = "FindNode" ->
                     handle_incoming_find_node(h, message, addr)
               [] message.type = "Request" /\ message.kind = "GetPeers" ->
                     handle_incoming_get_peers_request(h, message, addr, now)
               [] message.type = "Request" /\ message.kind = "AnnouncePeer" ->
                     handle_incoming_announce_peer(h, message, addr, now)
               [] message.type = "Response" /\ message.kind = "Other" ->
                     handle_incoming_other(h, addr, trans_id,
                                           message.nodes_v4)
               [] message.type = "Response" /\ message.kind = "GetPeers" ->
                     handle_incoming_get_peers(h, addr, trans_id, message)
               [] message.type = "Error" -> h

(***************************************************************************)
(* The handler as a state machine: one step per turn of run_once           *)
(***************************************************************************)
\* the handler constructed with a table, read_only and an announce port
HandlerInitOf(table, ro, port) ==
    LET h == DhtHandler_new(table, ro, port)
    IN  /\ running = h.running
        /\ bootstrapping = h.bootstrapping
        /\ table_actions = h.table_actions
        /\ future_actions = h.future_actions
        /\ event_tx = h.event_tx
        /\ timer = h.timer
        /\ aid_generator = h.aid_generator
        /\ routing_table = h.routing_table
        /\ socket = h.socket
        /\ bootstrap_starts = h.bootstrap_starts
        /\ sent = h.sent
        /\ read_only = h.read_only
        /\ announce_port = h.announce_port
        /\ token_store = h.token_store
        /\ handled = [src |-> "none"]
        /\ commands = 0
        /\ lookups = {}

\* the handler of a node that answers requests, constructed with a table of
\* k good nodes
HandlerInitWith(k) ==
    HandlerInitOf(RoutingTable_new(k), FALSE, {})

HandlerInit ==
    /\ StorageInit
    /\ \E k \in ResidentGood : HandlerInitWith(k)

\* the action ids of the registered procedures of a kind
Registered(h, kind) ==
    {a \in DOMAIN h.table_actions : h.table_actions[a].kind = kind}

\* command_rx yields StartBootstrap(routers, nodes), whether or not a
\* bootstrap is in progress
StartBootstrap(routers, nodes) ==
    /\ running
    /\ commands < MaxBootstraps
    /\ Becomes(handle_start_bootstrap(Handler, routers, nodes))
    /\ handled' = [src |-> "command"]
    /\ commands' = commands + 1
    /\ UNCHANGED <<lookups, storageVars>>

\* command_rx is closed
CommandsClosed ==
    /\ running
    /\ Becomes(shutdown(Handler))
    /\ handled' = [src |-> "closed"]
    /\ UNCHANGED <<commands, lookups, storageVars>>

\* history of a turn: the calls of the socket that return Err in it
SocketFaults(h) ==
    IF h.send_err THEN [send_err |-> TRUE]
    ELSE IF h.local_addr = {} THEN [local_err |-> TRUE]
    ELSE <<>>

\* the turn of run_once in which the socket yields a datagram: the state
\* handle_incoming leaves the handler and its storage in
IncomingTurn(h, message, addr) ==
    \E r \in {handle_incoming(h, message, addr, clock)} :
        /\ Becomes(r)
        /\ storage' = r.active_stores.storage
        /\ expires' = r.active_stores.expires
        /\ handled' = IF message.type = "Request"
                      THEN [src |-> "socket", type |-> message.type,
                            from |-> addr,
                            transaction_id |-> message.transaction_id,
                            message |-> message, at |-> clock]
                           @@ SocketFaults(h)
                      ELSE [src |-> "socket", type |-> message.type]
        /\ UNCHANGED <<commands, lookups, clock, ret, accepted, renewed>>

\* a turn for a datagram that is none of the block of announces
Incoming(h, message, addr) ==
    /\ IncomingTurn(h, message, addr)
    /\ filled' = filled

\* the socket yields the answer to a find_node request, a Response::Other
ResponseArrives(m, nodes_v4) ==
    /\ running
    /\ m \in socket
    /\ m.msg = "find_node"
    /\ Len(timer) <= MaxTimer
    /\ Incoming([Handler EXCEPT !.socket = @ \ {m}],
                [type |-> "Response", kind |-> "Other",
                 transaction_id |-> TransactionID_as_ref(m.trans_id),
                 nodes_v4 |-> nodes_v4],
                m.to)

\* the socket yields a Response::Other that answers no awaited request: a
\* late or repeated answer, bearing the first transaction id of an action
LateResponseArrives(addr, aid, nodes_v4) ==
    /\ running
    /\ aid < aid_generator
    /\ Len(timer) <= MaxTimer
    /\ Incoming(Handler,
                [type |-> "Response", kind |-> "Other",
                 transaction_id |->
                     TransactionID_as_ref([aid |-> aid, seq |-> 0]),
                 nodes_v4 |-> nodes_v4],
                addr)

\* Timer::next can yield the i-th scheduled check: the checks are due in
\* the order they were scheduled, except that a table refresh, due after
\* 6 s, can be overtaken by checks due after 5 s
Due(i) ==
    /\ i \in 1 .. Len(timer)
    /\ IF timer[i].check = "TableRefresh" THEN i = 1
       ELSE \A j \in 1 .. (i - 1) : timer[j].check = "TableRefresh"

TimerWithout(i) ==
    SubSeq(timer, 1, i - 1) \o SubSeq(timer, i + 1, Len(timer))

\* the timer yields a BootstrapTimeout; the request it is for is answered
\* no more
BootstrapTimeoutFires(i) ==
    /\ running
    /\ Due(i)
    /\ timer[i].check = "BootstrapTimeout"
    /\ Becomes(handle_check_bootstrap_timeout(
                   [Handler EXCEPT
                       !.timer = TimerWithout(i),
                       !.socket = {m \in @ : m.trans_id # timer[i].trans_id}],
                   timer[i].trans_id))
    /\ handled' = [src |-> "timer", token |-> timer[i]]
    /\ UNCHANGED <<commands, lookups, storageVars>>

\* the cursor of the refresh is within MaxRefreshes of the start or of
\* the wrap at MAX_BUCKETS: the firings the model follows
RefreshesLeft ==
    \A a \in Registered(Handler, "Refresh") :
        \/ table_actions[a].refresh.curr_refresh_bucket < MaxRefreshes
        \/ table_actions[a].refresh.curr_refresh_bucket
              >= MAX_BUCKETS - MaxRefreshes

\* the timer yields a TableRefresh
TableRefreshFires ==
    /\ running
    /\ Due(1)
    /\ timer[1].check = "TableRefresh"
    /\ RefreshesLeft
    /\ Becomes(handle_check_table_refresh(
                   [Handler EXCEPT !.timer = TimerWithout(1)],
                   timer[1].trans_id))
    /\ handled' = [src |-> "timer", token |-> timer[1]]
    /\ UNCHANGED <<commands, lookups, storageVars>>

\* the StartBootstrap commands that come while a bootstrap is in progress:
\* one with nobody to ask, or one that names routers only while the one in
\* progress names routers only and the table holds no remote node; two
\* bootstraps that both walk the phases of a table with a node are not
\* followed
OverlapFollowed(routers, nodes) ==
    \/ Registered(Handler, "Bootstrap") = {}
    \/ routers \cup nodes = {}
    \/ /\ nodes = {}
       /\ \A a \in Registered(Handler, "Bootstrap") :
             table_actions[a].bootstrap.starting_nodes = {}
       /\ \A a \in RemoteAddrs : routing_table.nodes[a] = "none"

\* late answers come while no more than one bootstrap is in progress
LateFollowed == Cardinality(Registered(Handler, "Bootstrap")) <= 1

HandlerNext ==
    \/ \E routers \in RouterSets, nodes \in SeedSets :
          /\ OverlapFollowed(routers, nodes)
          /\ StartBootstrap(routers, nodes)
    \/ CommandsClosed
    \/ \E m \in socket, nodes_v4 \in NodeLists : ResponseArrives(m, nodes_v4)
    \/ \E addr \in LateAddrs, aid \in 0 .. MaxBootstraps,
          nodes_v4 \in NodeLists :
             /\ LateFollowed
             /\ LateResponseArrives(addr, aid, nodes_v4)
    \/ \E i \in 1 .. Len(timer) : BootstrapTimeoutFires(i)
    \/ TableRefreshFires

HandlerSpec == HandlerInit /\ [][HandlerNext]_vars

\* the step in which run_once takes the timer branch for a due
\* BootstrapTimeout: the step of BootstrapTimeoutFires, told by `handled`
BootstrapTimeoutTaken ==
    /\ running
    /\ \E i \in 1 .. Len(timer) :
          /\ Due(i)
          /\ timer[i].check = "BootstrapTimeout"
          /\ handled' = [src |-> "timer", token |-> timer[i]]

\* select! takes a branch that is ready: a BootstrapTimeout that is due is
\* yielded in the end
HandlerFairSpec ==
    /\ HandlerSpec
    /\ WF_handled(BootstrapTimeoutTaken)

\* the storage on its own: the handler stays as it was constructed
(***************************************************************************)
(* The handler with lookups: the StartLookup command, the get_peers        *)
(* responses, stray responses and the lookup's timer events.  The          *)
(* bootstrap from the routers is the first StartBootstrap command of a     *)
(* run, made on a table that holds no node but the router (which           *)
(* handle_incoming adds to the table when it answers a lookup or the       *)
(* refresh); the later ones have no one to ask.                            *)
(***************************************************************************)
\* the tables the handler is constructed with
LookupTables ==
    {RoutingTable_with({Router}), RoutingTable_with({Node1, Node2})}

\* the announce port the handler is constructed with
AnnouncePorts == {{}}

LookupInit ==
    /\ StorageInit
    /\ \E table \in LookupTables, port \in AnnouncePorts :
          HandlerInitOf(table, FALSE, port)

\* command_rx yields StartLookup(info_hash, should_announce)
StartLookup(info_hash, should_announce) ==
    /\ running
    /\ Cardinality(lookups) < MaxLookups
    /\ Becomes(handle_start_lookup(Handler, info_hash, should_announce,
                                   aid_generator))
    /\ handled' = [src |-> "command"]
    /\ lookups' = lookups \cup {[cmd |-> aid_generator,
                              info_hash |-> info_hash]}
    /\ UNCHANGED <<commands, storageVars>>

\* the Response::GetPeers that answers a get_peers request
GetPeersResponse(m, values) ==
    [type |-> "Response", kind |-> "GetPeers",
     transaction_id |-> TransactionID_as_ref(m.trans_id),
     values |-> values, nodes |-> {}, token |-> {RemoteToken}]

\* the socket yields the answer to a get_peers request, a
\* Response::GetPeers
GetPeersArrives(m, values) ==
    /\ running
    /\ m \in socket
    /\ m.msg = "get_peers"
    /\ Len(timer) <= MaxTimer + 2 * MaxLookups
    /\ Incoming([Handler EXCEPT !.socket = @ \ {m}],
                GetPeersResponse(m, values), m.to)

\* the socket yields a response that answers no awaited request: late,
\* repeated, of the wrong kind or with bytes that are no transaction id
StrayResponseArrives(addr, bytes, kind, values) ==
    /\ running
    /\ \A m \in socket : TransactionID_as_ref(m.trans_id) # bytes
    /\ Len(timer) <= MaxTimer + 2 * MaxLookups
    /\ Incoming(Handler,
                [type |-> "Response", kind |-> kind,
                 transaction_id |-> bytes, nodes_v4 |-> {},
                 values |-> values, nodes |-> {}, token |-> {RemoteToken}],
                addr)

\* the timer yields a LookupTimeout; the request it is for is answered no
\* more
LookupTimeoutFires(i) ==
    /\ running
    /\ Due(i)
    /\ timer[i].check = "LookupTimeout"
    /\ Becomes(handle_check_lookup_timeout(
                   [Handler EXCEPT
                       !.timer = TimerWithout(i),
                       !.socket = {m \in @ : m.trans_id # timer[i].trans_id}],
                   timer[i].trans_id))
    /\ handled' = [src |-> "timer", token |-> timer[i]]
    /\ UNCHANGED <<commands, lookups, storageVars>>

\* the timer yields a LookupEndGame
LookupEndGameFires(i) ==
    /\ running
    /\ Due(i)
    /\ timer[i].check = "LookupEndGame"
    /\ Becomes(handle_check_lookup_endgame(
                   [Handler EXCEPT !.timer = TimerWithout(i)],
                   timer[i].trans_id))
    /\ handled' = [src |-> "timer", token |-> timer[i]]
    /\ UNCHANGED <<commands, lookups, storageVars>>

LookupNext ==
    \/ \E routers \in RouterSets :
          /\ routers # {} =>
                /\ commands = 0
                /\ \A a \in RemoteAddrs \ routers :
                      routing_table.nodes[a] = "none"
          /\ StartBootstrap(routers, {})
    \/ \E info_hash \in LookupHashes, should_announce \in AnnounceFlags :
          StartLookup(info_hash, should_announce)
    \/ CommandsClosed
    \/ \E m \in socket, nodes_v4 \in NodeLists : ResponseArrives(m, nodes_v4)
    \/ \E m \in socket, values \in PeerSets : GetPeersArrives(m, values)
    \/ \E bytes \in StrayIds, k \in StrayKinds :
          StrayResponseArrives(k.addr, bytes, k.kind, k.values)
    \/ \E i \in 1 .. Len(timer) : BootstrapTimeoutFires(i)
    \/ \E i \in 1 .. Len(timer) : LookupTimeoutFires(i)
    \/ \E i \in 1 .. Len(timer) : LookupEndGameFires(i)
    \/ TableRefreshFires

LookupSpec == LookupInit /\ [][LookupNext]_vars

(***************************************************************************)
(* The handler of a node that remote nodes send requests to.  The remote   *)
(* nodes take their transaction ids, tokens and ports as they like; the    *)
(* clock moves on by the rotation interval of the token secret.  There is  *)
(* one StartBootstrap command: a bootstrap that has a router to ask is in  *)
(* progress until the router's answer times out and goes on with the nodes *)
(* of the table, one that has none completes at once and the refresh       *)
(* fires.  The lookup does not announce, and takes the answers to its      *)
(* get_peers requests, which name one peer, or their timeouts.  The send   *)
(* of an answer may return Err, and so may local_addr().                   *)
(***************************************************************************)
\* the rotations of the token secret the clock moves through
MaxRotations == 2

RotationInstants == {k * TOKEN_ROTATION : k \in 1 .. MaxRotations}

\* the port a remote node names in an announce_peer that differs from the
\* port it sends from
AnnouncedPort == 7000

\* the addresses requests come from: a node of the table, and the same
\* host sending from another port
RequestAddrs == {Node1, SocketAddr("n1", AnnouncedPort)}

\* the transaction ids of requests, chosen by the remote node: one byte,
\* and for a ping also bytes that would parse as a transaction id of ours
RequestIds == {<<7>>}

PingIds == RequestIds \cup {<<1, 0>>}

Wants == {{}, {"V4"}, {"Both"}}

\* the targets of find_node requests: an id that differs from the local id
\* in the last bit, so that in their bucket the second node is closer to it
\* than the first
FindTargets == {flip_bit(MAX_BUCKETS - 1)}

\* the tokens of announce_peer requests: bytes that are no token, and the
\* token the first secret gives the sender's IP
RequestTokens == {<<0>>, Token_bytes(1, "n1")}

\* the instants the clock moves to while requests come in: the first
\* rotation of the token secret
RequestInstants == {TOKEN_ROTATION}

RequestPorts == {{}, {AnnouncedPort}}

\* the requests Message::decode yields
Requests ==
    {[type |-> "Request", kind |-> "Ping", transaction_id |-> t] :
        t \in PingIds}
    \cup {[type |-> "Request", kind |-> "FindNode", transaction_id |-> t,
            target |-> g, want |-> w] :
              t \in RequestIds, g \in FindTargets, w \in Wants}
    \cup {[type |-> "Request", kind |-> "GetPeers", transaction_id |-> t,
            info_hash |-> i] : t \in RequestIds, i \in LookupHashes}
    \cup {[type |-> "Request", kind |-> "AnnouncePeer", transaction_id |-> t,
            info_hash |-> i, token |-> k, port |-> {}] :
              t \in RequestIds, i \in LookupHashes, k \in RequestTokens}

\* the table the handler is constructed with: it holds the first node as
\* questionable and the second as good
RequestTables ==
    {[RoutingTable_with({Node2}) EXCEPT !.nodes[Node1] = "questionable"]}

RequestInit ==
    /\ StorageInit
    /\ \E table \in RequestTables, ro \in BOOLEAN :
          HandlerInitOf(table, ro, {})

\* the socket yields a request of a remote node
RequestArrives(message, addr) ==
    /\ running
    /\ Incoming(Handler, message, addr)

\* the socket yields a request and the send of its answer returns Err
RequestArrivesUnsent(message, addr) ==
    /\ running
    /\ ~read_only
    /\ Incoming([Handler EXCEPT !.send_err = TRUE], message, addr)

\* the socket yields a find_node request that does not say what it wants,
\* and local_addr() returns Err
RequestArrivesUnbound(message, addr) ==
    /\ running
    /\ ~read_only
    /\ message.kind = "FindNode"
    /\ message.want = {}
    /\ Incoming([Handler EXCEPT !.local_addr = {}], message, addr)

\* the requests in whose turn a call of the socket returns Err
FaultRequests == {m \in Requests : m.transaction_id \in RequestIds}

\* the timeouts of a bootstrap are followed through its first phases
PhasesFollowed ==
    \A a \in Registered(Handler, "Bootstrap") :
        table_actions[a].bootstrap.bucket_cursor < MaxPhases

RequestNext ==
    \/ \E routers \in RouterSets :
          /\ commands = 0
          /\ StartBootstrap(routers, {})
    \/ \E info_hash \in LookupHashes : StartLookup(info_hash, FALSE)
    \/ \E m \in socket : GetPeersArrives(m, {Peer1})
    \/ \E message \in Requests, addr \in RequestAddrs :
          RequestArrives(message, addr)
    \/ \E message \in FaultRequests : RequestArrivesUnsent(message, Node1)
    \/ \E message \in FaultRequests : RequestArrivesUnbound(message, Node1)
    \/ \E i \in 1 .. Len(timer) :
          /\ PhasesFollowed
          /\ BootstrapTimeoutFires(i)
    \/ \E i \in 1 .. Len(timer) : LookupTimeoutFires(i)
    \/ \E i \in 1 .. Len(timer) : LookupEndGameFires(i)
    \/ TableRefreshFires
    \/ \E t \in RequestInstants : Tick(t)

RequestSpec == RequestInit /\ [][RequestNext]_vars

(***************************************************************************)
(* The handler of a node that remote nodes announce to.  The handler       *)
(* processes requests; get_peers and announce_peer requests come from two  *)
(* ports of one host and from a second host, with tokens made for the      *)
(* first host from the first two secrets.  Before anything else a host may *)
(* begin to announce a block of ports, one request a turn; once the block  *)
(* fills the storage or leaves room for one pair, the other requests come  *)
(* in between.  The send of an answer may return Err.  The clock moves     *)
(* through two rotations of the token secret and on to 24 hours and one    *)
(* rotation after.                                                         *)
(***************************************************************************)
AnnounceInstants ==
    RotationInstants
    \cup {EXPIRATION_TIME + k * TOKEN_ROTATION : k \in 0 .. (MaxRotations - 1)}

AnnounceAddrs == RequestAddrs \cup {Node2}

\* the tokens of the announce_peer requests: bytes that are no token, and
\* the tokens the first secrets give the first host
AnnounceTokens ==
    {<<0>>} \cup {Token_bytes(k, "n1") : k \in 1 .. MaxRotations}

AnnounceRequests ==
    {[type |-> "Request", kind |-> "GetPeers", transaction_id |-> <<7>>,
      info_hash |-> i] : i \in LookupHashes}
    \cup {[type |-> "Request", kind |-> "AnnouncePeer",
            transaction_id |-> <<7>>, info_hash |-> i, token |-> k,
            port |-> p] :
              i \in LookupHashes, k \in AnnounceTokens, p \in RequestPorts}

\* the announce_peer of a port of the block, with the token the handler
\* gives the sender at this time
BlockRequest(h, addr, port, now) ==
    [type |-> "Request", kind |-> "AnnouncePeer", transaction_id |-> <<7>>,
     info_hash |-> 0,
     token |-> TokenStore_checkout(h.token_store, addr.ip, now).token,
     port |-> {port}]

AnnounceInit ==
    /\ StorageInit
    /\ \E table \in RequestTables : HandlerInitOf(table, FALSE, {})

\* the socket yields the next announce_peer of the block: the first host
\* announces the port after the last one it has announced, with the token
\* the handler gives it at this time.  `filled` counts the ports.
AnnounceBlockArrives ==
    /\ running
    /\ filled.count < MAX_ITEMS_STORED
    /\ IncomingTurn(Handler,
                    BlockRequest(Handler, Node1, filled.count + 1, clock),
                    Node1)
    /\ filled' = [count |-> filled.count + 1, time |-> clock]

\* the block begins before anything else has come, and datagrams other
\* than the next of the block come and the clock moves on while the block
\* has not begun or has left room for no more than MaxSpare pairs
BlockFollowed == filled.count > 0 \/ handled.src = "none"

BlockSettled == filled.count = 0 \/ filled.count \in FillCounts

AnnounceNext ==
    \/ \E message \in AnnounceRequests, addr \in AnnounceAddrs :
          /\ BlockSettled
          /\ RequestArrives(message, addr)
    \/ \E message \in AnnounceRequests :
          /\ BlockSettled
          /\ RequestArrivesUnsent(message, Node1)
    \/ /\ BlockFollowed
       /\ AnnounceBlockArrives
    \/ \E t \in AnnounceInstants :
          /\ BlockSettled
          /\ Tick(t)

AnnounceSpec == AnnounceInit /\ [][AnnounceNext]_vars

(***************************************************************************)
(* The handler bootstrapping from a router whose answers may name the      *)
(* router itself.  The handler is constructed with a table whose nodes     *)
(* are good and none of which is asked or answers, every StartBootstrap    *)
(* names the router and no seed node, and the lookups and the refresh ask  *)
(* the nodes the table has learnt.                                         *)
(***************************************************************************)
\* the tables the handler is constructed with: more good nodes than the
\* threshold of a rebootstrap, none of them the router
RouterTables == {RoutingTable_new(BOOTSTRAP_GOOD_NODE_THRESHOLD + 1)}

\* the nodes_v4 lists of the router's answers
RouterNodeLists == {{}, {Router}}

RouterInit ==
    /\ StorageInit
    /\ \E table \in RouterTables : HandlerInitOf(table, FALSE, {})

RouterNext ==
    \/ StartBootstrap({Router}, {})
    \/ \E info_hash \in LookupHashes : StartLookup(info_hash, FALSE)
    \/ CommandsClosed
    \/ \E m \in socket, nodes_v4 \in RouterNodeLists :
          ResponseArrives(m, nodes_v4)
    \/ \E m \in socket, values \in PeerSets : GetPeersArrives(m, values)
    \/ \E i \in 1 .. Len(timer) : BootstrapTimeoutFires(i)
    \/ \E i \in 1 .. Len(timer) : LookupTimeoutFires(i)
    \/ \E i \in 1 .. Len(timer) : LookupEndGameFires(i)
    \/ TableRefreshFires

RouterSpec == RouterInit /\ [][RouterNext]_vars

\* the statuses the nodes of a table have when the refresh runs
RefreshTables ==
    {[RoutingTable_new(0) EXCEPT !.nodes = nodes] :
        nodes \in [RemoteAddrs -> {"none", "good", "questionable", "bad"}]}

\* the cursor of the refresh after its first firing and after the firing
\* for bucket MAX_BUCKETS - MaxRefreshes - 1
RefreshCursors == {1, MAX_BUCKETS - MaxRefreshes}

\* the handler after n further turns of run_once in each of which the
\* timer yields the TableRefresh, no answer coming in between; a timer
\* that is empty yields nothing
RECURSIVE RefreshFired(_, _)
RefreshFired(h, n) ==
    IF n = 0 \/ h.timer = <<>> THEN h
    ELSE IF n = 1
    THEN handle_check_table_refresh(
             [h EXCEPT !.timer = Tail(@), !.sent = <<>>],
             Head(h.timer).trans_id)
    ELSE LET half == RefreshFired(h, n \div 2)
         IN  IF half.running   \* the first half is computed first
             THEN RefreshFired(half, n - (n \div 2))
             ELSE half

\* the handler after the first BootstrapCompleted, of a bootstrap with
\* nothing to contact: the refresh is registered and has fired, once at
\* the completion and then until its cursor is the given one
RefreshStart(table, cursor) ==
    RefreshFired(
        handle_start_bootstrap(DhtHandler_new(table, FALSE, {}), {}, {}),
        cursor - 1)

RefreshInit ==
    /\ StorageInit
    /\ \E table \in RefreshTables, cursor \in RefreshCursors :
          \E h \in {RefreshStart(table, cursor)} :
             /\ running = h.running
             /\ bootstrapping = h.bootstrapping
             /\ table_actions = h.table_actions
             /\ future_actions = h.future_actions
             /\ event_tx = h.event_tx
             /\ timer = h.timer
             /\ aid_generator = h.aid_generator
             /\ routing_table = h.routing_table
             /\ socket = h.socket
             /\ bootstrap_starts = h.bootstrap_starts
             /\ sent = <<>>
             /\ read_only = h.read_only
             /\ announce_port = h.announce_port
             /\ token_store = h.token_store
             /\ handled = [src |-> "none"]
             /\ commands = 1
             /\ lookups = {}

\* the timer yields a TableRefresh and the send of the socket returns
\* Err: the table holds a questionable node, or the refresh would not send
TableRefreshFiresUnsent ==
    /\ running
    /\ Due(1)
    /\ timer[1].check = "TableRefresh"
    /\ RefreshesLeft
    /\ \E a \in RemoteAddrs : routing_table.nodes[a] = "questionable"
    /\ Becomes([handle_check_table_refresh(
                    [Handler EXCEPT !.timer = TimerWithout(1),
                                    !.send_err = TRUE],
                    timer[1].trans_id)
                   EXCEPT !.send_err = FALSE])
    /\ handled' = [src |-> "timer", token |-> timer[1], send_err |-> TRUE]
    /\ UNCHANGED <<commands, lookups, storageVars>>

\* the nodes an answer to the refresh names
RefreshNodeLists == {{}, {Node2}}

\* the answers that come are those to the last requests of the refresh;
\* the requests before them stay unanswered
AnswerFollowed(m) ==
    \A a \in Registered(Handler, "Refresh") :
        m.trans_id.seq + MaxAnswered
           >= table_actions[a].refresh.id_generator.seq

RefreshNext ==
    \/ TableRefreshFires
    \/ TableRefreshFiresUnsent
    \/ \E m \in socket, nodes_v4 \in RefreshNodeLists :
          /\ AnswerFollowed(m)
          /\ ResponseArrives(m, nodes_v4)

RefreshSpec == RefreshInit /\ [][RefreshNext]_vars

(***************************************************************************)
(* The handler of a node whose socket takes datagrams of both address      *)
(* families: get_peers and announce_peer requests come from an IPv4 and    *)
(* from an IPv6 host, with the tokens the first secret gives the two.      *)
(***************************************************************************)
\* a remote node with an IPv6 address
Node6 == SocketAddr("x6", NodePort)

DualStackAddrs == {Node1, Node6}

DualStackTokens == {<<0>>, Token_bytes(1, "n1"), Token_bytes(1, "x6")}

DualStackRequests ==
    {[type |-> "Request", kind |-> "GetPeers", transaction_id |-> <<7>>,
      info_hash |-> i] : i \in LookupHashes}
    \cup {[type |-> "Request", kind |-> "AnnouncePeer",
            transaction_id |-> <<7>>, info_hash |-> i, token |-> k,
            port |-> p] :
              i \in LookupHashes, k \in DualStackTokens, p \in RequestPorts}

DualStackNext ==
    \/ \E message \in DualStackRequests, addr \in DualStackAddrs :
          RequestArrives(message, addr)
    \/ \E t \in RotationInstants : Tick(t)

DualStackSpec == AnnounceInit /\ [][DualStackNext]_vars

StorageOnlyInit ==
    /\ StorageInit
    /\ HandlerInitWith(0)

StorageSpec == StorageOnlyInit /\ [][StorageNext]_vars

(***************************************************************************)
(* What the checks are stated with                                         *)
(***************************************************************************)
Range(s) == {s[i] : i \in 1 .. Len(s)}

\* the (info hash, address) pairs of the info-hash map
StoredPairs(m) ==
    UNION {{<<h, m[h][i].address>> : i \in 1 .. Len(m[h])} : h \in DOMAIN m}

\* the number of contacts of the info-hash map, summed over the info hashes
RECURSIVE SumLen(_, _)
SumLen(m, S) ==
    IF S = {} THEN 0
    ELSE LET h == CHOOSE x \in S : TRUE
         IN  Len(m[h]) + SumLen(m, S \ {h})

TotalStored == SumLen(storage, DOMAIN storage)

\* the pairs whose most recent accepted add_item is less than 24h before
\* now, by the history of the calls
InForcePairs(now) ==
    {p \in ProbePairs : InForce(accepted[p], now)}
    \cup (IF InForce(filled.time, now)
          THEN {<<0, a>> : a \in 2 .. filled.count}
          ELSE {})

\* the pair of the last add_item call
RetPair(r) == <<r.info_hash, r.address>>

(***************************************************************************)
(* C1..C7: the announce storage, under StorageSpec                         *)
(***************************************************************************)

\* C1: after any sequence of add_item and find_items calls at non-decreasing
\* times, the number of stored (info hash, address) pairs, summed over all
\* info hashes, is at most 500.
C1_AnnounceCap ==
    TotalStored <= MAX_ITEMS_STORED

\* the storage holds 500 pairs and has just refused a new one
C1_Witness ==
    /\ TotalStored = MAX_ITEMS_STORED
    /\ ret.op = "add_item"
    /\ ~ret.res

\* C2: a pair accepted at t1 and added again at t2 > t1, before it expired,
\* has its expiration renewed and moved to the tail of the queue, and
\* find_items returns it at every time in [t2, t2 + 24h).
C2_Renewal ==
    /\ \A p \in ProbePairs :
          (ret.op = "add_item" /\ RetPair(ret) = p /\ ret.res /\ renewed[p])
          => /\ expires # <<>>
             /\ expires[Len(expires)] =
                    [address |-> p[2], inserted |-> clock, info_hash |-> p[1]]
             /\ \A i \in 1 .. Len(expires) - 1 :
                    ~ItemExpiration_eq(expires[i], expires[Len(expires)])
    /\ \A p \in ProbePairs :
          (ret.op = "find_items" /\ ret.info_hash = p[1] /\ renewed[p]
              /\ InForce(accepted[p], clock))
          => p[2] \in Range(ret.items)

\* find_items returns a pair first added at 0 and added again at 1, at the
\* time 24h: 24h after the first call, less than 24h after the second
C2_Witness ==
    /\ ret.op = "find_items"
    /\ clock = EXPIRATION_TIME
    /\ \E p \in ProbePairs :
          /\ p[1] = ret.info_hash
          /\ renewed[p]
          /\ accepted[p] = 1
          /\ p[2] \in Range(ret.items)

\* C3: a pair added at time t and not added again is not returned by
\* find_items at any time >= t + 24h, the time t + 24h included.
C3_Expiration ==
    ret.op = "find_items" =>
        /\ \A p \in ProbePairs :
              (p[1] = ret.info_hash /\ accepted[p] >= 0
                  /\ clock - accepted[p] >= EXPIRATION_TIME)
              => p[2] \notin Range(ret.items)
        /\ (ret.info_hash = 0 /\ filled.count > 0
                /\ clock - filled.time >= EXPIRATION_TIME)
           => \A a \in 2 .. filled.count : a \notin Range(ret.items)

\* find_items, called exactly 24h after a pair was accepted, does not
\* return it
C3_Witness ==
    /\ ret.op = "find_items"
    /\ \E p \in ProbePairs :
          /\ p[1] = ret.info_hash
          /\ accepted[p] >= 0
          /\ clock - accepted[p] = EXPIRATION_TIME
          /\ p[2] \notin Range(ret.items)

\* C4: add_item(h, a) returns true iff, the expired entries left out, the
\* pair is already stored or fewer than 500 pairs are stored; a storage
\* that was full accepts a new pair once its entries are 24h old.
C4_AddReturn ==
    [][ret'.op = "add_item" =>
         (ret'.res <=>
            \/ RetPair(ret') \in InForcePairs(clock)
            \/ Cardinality(InForcePairs(clock)) < MAX_ITEMS_STORED)]_storageVars

\* a storage filled with 500 pairs accepts a new pair 24h after the fill
C4_Witness ==
    /\ ret.op = "add_item"
    /\ ret.res
    /\ filled.count = MAX_ITEMS_STORED
    /\ clock = filled.time + EXPIRATION_TIME
    /\ ret.address = MAX_ITEMS_STORED + 1
    /\ ~renewed[RetPair(ret)]
    /\ RetPair(ret) \in StoredPairs(storage)

\* C5: with 500 unexpired pairs stored, add_item of a pair that is not
\* stored returns false and leaves the info-hash map and the expiration
\* queue unchanged; the find_items for its info hash that follows does not
\* return the refused address, and returns nothing when the info hash has
\* no other pair.
C5_RefusalAtCap ==
    /\ [][(ret'.op = "add_item"
            /\ RetPair(ret') \notin InForcePairs(clock)
            /\ Cardinality(InForcePairs(clock)) = MAX_ITEMS_STORED)
          => (~ret'.res /\ storage' = storage /\ expires' = expires)]_storageVars
    /\ [][(ret.op = "add_item" /\ ~ret.res
            /\ ret'.op = "find_items" /\ ret'.info_hash = ret.info_hash)
          => /\ ret.address \notin Range(ret'.items)
             /\ (\A p \in InForcePairs(clock) : p[1] # ret.info_hash)
                    => ret'.items = <<>>]_storageVars

\* a pair is refused by a storage of 500 pairs, none under its info hash
C5_Witness ==
    /\ ret.op = "add_item"
    /\ ~ret.res
    /\ Len(expires) = MAX_ITEMS_STORED
    /\ ret.info_hash \notin DOMAIN storage

\* C6: adding a pair that is already stored returns true, also when 500
\* pairs are stored, and leaves the set of stored pairs and their number
\* unchanged.
C6_RenewalAtCap ==
    [][(ret'.op = "add_item" /\ RetPair(ret') \in InForcePairs(clock))
       => /\ ret'.res
          /\ StoredPairs(storage') = InForcePairs(clock)
          /\ SumLen(storage', DOMAIN storage') = Cardinality(InForcePairs(clock))
          /\ Len(expires') = Cardinality(InForcePairs(clock))]_storageVars

\* a stored pair is added again, at a later time, while 500 pairs are stored
C6_Witness ==
    /\ ret.op = "add_item"
    /\ ret.res
    /\ renewed[RetPair(ret)]
    /\ accepted[RetPair(ret)] = clock
    /\ TotalStored = MAX_ITEMS_STORED

\* C7: find_items(h) at time T returns exactly the addresses a whose most
\* recent accepted add_item(h, a) is less than 24h before T, each once, and
\* no address that was added under another info hash only.
C7_FindItems ==
    ret.op = "find_items" =>
        /\ Range(ret.items) =
              {p[2] : p \in {q \in InForcePairs(clock) : q[1] = ret.info_hash}}
        /\ \A i, j \in 1 .. Len(ret.items) :
              ret.items[i] = ret.items[j] => i = j

\* find_items for info hash 0 returns addresses while the address past the
\* block is stored under info hash 1 only
C7_Witness ==
    /\ ret.op = "find_items"
    /\ ret.info_hash = 0
    /\ ret.items # <<>>
    /\ accepted[<<0, MAX_ITEMS_STORED + 1>>] = -1
    /\ InForce(accepted[<<1, MAX_ITEMS_STORED + 1>>], clock)

(***************************************************************************)
(* C8..C10: the bootstrap in the handler, under HandlerSpec and, for what  *)
(* must happen in the end, HandlerFairSpec                                 *)
(***************************************************************************)
\* the action ids of the StartBootstrap commands
BootstrapIds == 1 .. MaxBootstraps

\* how many times an event was sent for an action
Sent(event, a) ==
    Cardinality({i \in 1 .. Len(event_tx) :
                    event_tx[i] = [event |-> event, action_id |-> a]})

\* the bootstrap of action a is registered
IsBootstrap(a) ==
    a \in DOMAIN table_actions /\ table_actions[a].kind = "Bootstrap"

\* C8: for every StartBootstrap command whose bootstrap does not fail (the
\* handler keeps running), BootstrapCompleted is sent exactly once for that
\* bootstrap: it is sent in the end, given that the timer yields its checks,
\* and it is never sent a second time, whatever the order of responses,
\* timeouts and rebootstraps.
C8_BootstrapCompletedOnce ==
    /\ [](\A a \in BootstrapIds : Sent("BootstrapCompleted", a) <= 1)
    /\ \A a \in BootstrapIds :
          (a < aid_generator) ~> (Sent("BootstrapCompleted", a) = 1 \/ ~running)

\* two bootstraps have completed, the first after a rebootstrap, and the
\* handler runs
C8_Witness ==
    /\ running
    /\ \A a \in BootstrapIds : Sent("BootstrapCompleted", a) = 1
    /\ bootstrap_starts[1] > 1

\* C9: for one StartBootstrap command start_bootstrap is called at most 3
\* times, the first call counted, and the attempts counter never exceeds 3;
\* while the bootstrap is registered the calls are one more than the
\* attempts, until the third attempt, which starts nothing.
C9_RebootstrapBound ==
    /\ \A a \in DOMAIN bootstrap_starts :
          bootstrap_starts[a] <= MAX_BOOTSTRAP_ATTEMPTS
    /\ \A a \in BootstrapIds :
          IsBootstrap(a) =>
             /\ table_actions[a].attempts <= MAX_BOOTSTRAP_ATTEMPTS
             /\ bootstrap_starts[a] =
                   IF table_actions[a].attempts < MAX_BOOTSTRAP_ATTEMPTS
                   THEN table_actions[a].attempts + 1
                   ELSE MAX_BOOTSTRAP_ATTEMPTS

\* a bootstrap was started three times and BootstrapCompleted was sent for
\* it
C9_Witness ==
    \E a \in DOMAIN bootstrap_starts :
        /\ bootstrap_starts[a] = MAX_BOOTSTRAP_ATTEMPTS
        /\ Sent("BootstrapCompleted", a) = 1

\* the handler has stopped with the attempts of a bootstrap used up and no
\* good node in the table
Exhausted ==
    /\ ~running
    /\ num_good_nodes(routing_table) = 0
    /\ \E a \in BootstrapIds :
          IsBootstrap(a) /\ table_actions[a].attempts >= MAX_BOOTSTRAP_ATTEMPTS

\* C10: whenever the handler stops because the rebootstrap attempts are
\* used up with no good node in the table, BootstrapFailed is the event it
\* sent last.
C10_FailureSignalled ==
    Exhausted =>
        /\ event_tx # <<>>
        /\ event_tx[Len(event_tx)].event = "BootstrapFailed"

(***************************************************************************)
(* C11, C12: the end of a bootstrap that fails or uses up its attempts,    *)
(* under HandlerSpec                                                       *)
(***************************************************************************)
\* BootstrapFailed is among the events sent
BootstrapFailedSent(events) ==
    \E i \in 1 .. Len(events) : events[i].event = "BootstrapFailed"

\* C11: BootstrapFailed is terminal.  The step that sends it leaves the
\* handler stopped with BootstrapFailed its last event, and once it has
\* been sent the handler takes no further step: no event is sent and no
\* command, datagram or timer event is handled.
C11_BootstrapFailedTerminal ==
    [][/\ ~BootstrapFailedSent(event_tx) /\ BootstrapFailedSent(event_tx') =>
             /\ ~running'
             /\ event_tx'[Len(event_tx')].event = "BootstrapFailed"
             /\ Len(event_tx') = Len(event_tx) + 1
       /\ BootstrapFailedSent(event_tx) => UNCHANGED vars]_vars

\* BootstrapFailed was sent, by the check of a timeout, and the handler
\* has stopped with requests and timer events outstanding
C11_Witness ==
    /\ BootstrapFailedSent(event_tx)
    /\ ~running
    /\ handled.src = "timer"
    /\ timer # <<>>

\* the attempts of the registered bootstrap a reach the maximum in a step:
\* they were one short of it, and the step leaves them at the maximum or
\* ends the bootstrap with no more good nodes than the threshold
AttemptsReachMax(a) ==
    /\ IsBootstrap(a)
    /\ table_actions[a].attempts = MAX_BOOTSTRAP_ATTEMPTS - 1
    /\ \/ IsBootstrap(a)' /\ table_actions'[a].attempts = MAX_BOOTSTRAP_ATTEMPTS
       \/ /\ a \notin DOMAIN table_actions'
          /\ num_good_nodes(routing_table') <= BOOTSTRAP_GOOD_NODE_THRESHOLD

\* C12: when the attempts of a bootstrap reach 3 with 10 or fewer good
\* nodes in the table, then with no good node the handler stops and
\* BootstrapCompleted is not sent for the bootstrap, and with 1 to 10 good
\* nodes BootstrapCompleted is sent for it in that step and the handler
\* keeps running.
C12_LastAttempt ==
    [][\A a \in BootstrapIds :
          AttemptsReachMax(a) =>
             /\ num_good_nodes(routing_table') <= BOOTSTRAP_GOOD_NODE_THRESHOLD
             /\ IF num_good_nodes(routing_table') = 0
                THEN ~running' /\ Sent("BootstrapCompleted", a)' = 0
                ELSE /\ running'
                     /\ Sent("BootstrapCompleted", a) = 0
                     /\ Sent("BootstrapCompleted", a)' = 1]_vars

\* a bootstrap was started three times and has completed with some good
\* nodes but no more than the threshold; the handler runs
C12_Witness ==
    /\ running
    /\ num_good_nodes(routing_table) \in 1 .. BOOTSTRAP_GOOD_NODE_THRESHOLD
    /\ \E a \in DOMAIN bootstrap_starts :
          /\ bootstrap_starts[a] = MAX_BOOTSTRAP_ATTEMPTS
          /\ Sent("BootstrapCompleted", a) = 1
          /\ ~IsBootstrap(a)

(***************************************************************************)
(* C13..C18: bootstraps and lookups in the handler, under LookupSpec       *)
(***************************************************************************)
\* a post bootstrap action has been started: the refresh is registered and
\* its next check scheduled, a lookup is registered for its command under
\* an action id generated since
Started(action, ids) ==
    IF action.action = "Refresh"
    THEN /\ action.trans_id.aid \in DOMAIN table_actions'
         /\ table_actions'[action.trans_id.aid].kind = "Refresh"
         /\ \E i \in 1 .. Len(timer') : timer'[i].check = "TableRefresh"
    ELSE \E id \in DOMAIN table_actions' \ ids :
            /\ table_actions'[id].kind = "Lookup"
            /\ table_actions'[id].lookup.cmd = action.cmd

\* C13: when a StartBootstrap is handled whose bootstrap has no one to ask
\* and reports Idle, then in the handling of that command BootstrapCompleted
\* is sent for it, the bootstrapping flag is false afterwards, the
\* bootstrap is not left registered, and the post bootstrap actions, the
\* refresh and the queued lookups, are started and none is left queued.
C13_IdleBootstrap ==
    [][\A a \in {aid_generator} :
          StartBootstrap({}, {}) =>
             /\ Sent("BootstrapCompleted", a) = 0
             /\ Sent("BootstrapCompleted", a)' = 1
             /\ ~bootstrapping'
             /\ a \notin DOMAIN table_actions'
             /\ future_actions' = <<>>
             /\ \A i \in 1 .. Len(future_actions) :
                   Started(future_actions[i], 0 .. a)]_vars

\* the bootstrap of the third action had no one to ask and has completed
\* while the bootstrap of the first action is registered: the lookup
\* commanded in between, which was queued, is registered under the fourth
\* action id, and so is the refresh
C13_Witness ==
    /\ Sent("BootstrapCompleted", 3) = 1
    /\ IsBootstrap(1)
    /\ 4 \in DOMAIN table_actions
    /\ table_actions[4].kind = "Lookup"
    /\ table_actions[4].lookup.cmd = 2
    /\ 0 \in DOMAIN table_actions
    /\ table_actions[0].kind = "Refresh"
    /\ handled.src = "command"

\* the action ids of the registered lookups
LookupIds == Registered(Handler, "Lookup")

\* C14: a StartLookup handled while a bootstrap is in progress, one whose
\* StartBootstrap was handled and whose BootstrapCompleted has not been sent
\* yet, is not started before that BootstrapCompleted: whenever a lookup is
\* registered, BootstrapCompleted has been sent for every bootstrap
\* commanded before the lookup was.
C14_QueuedUntilCompleted ==
    \A id \in LookupIds :
        \A b \in DOMAIN bootstrap_starts :
            b < table_actions[id].lookup.cmd =>
                Sent("BootstrapCompleted", b) = 1

\* the timer yields a due check of a bootstrap or of a lookup: the step of
\* BootstrapTimeoutFires, LookupTimeoutFires or LookupEndGameFires, told
\* by `handled`
TimerCheckTaken ==
    /\ running
    /\ \E i \in 1 .. Len(timer) :
          /\ Due(i)
          /\ timer[i].check \in
                {"BootstrapTimeout", "LookupTimeout", "LookupEndGame"}
          /\ handled' = [src |-> "timer", token |-> timer[i]]

\* select! takes a branch that is ready: a check that is due is yielded in
\* the end
LookupFairSpec ==
    /\ LookupSpec
    /\ WF_handled(TimerCheckTaken)

\* the timer also yields the TableRefresh when it is due
RefreshFairSpec ==
    /\ LookupFairSpec
    /\ WF_vars(TableRefreshFires)

\* the action ids a command can be given
CommandIds == 1 .. (MaxBootstraps + MaxLookups)

\* how many times LookupCompleted was sent for the lookup of a command
Completed(c) ==
    Cardinality({i \in 1 .. Len(event_tx) :
                    /\ event_tx[i].event = "LookupCompleted"
                    /\ event_tx[i].cmd = c.cmd
                    /\ event_tx[i].info_hash = c.info_hash})

\* C15: for every StartLookup command, queued during a bootstrap or started
\* directly, LookupCompleted is sent exactly once for its lookup unless the
\* handler stops: it is sent in the end, given that the timer yields its
\* checks, whether the probes are answered or time out, and it is never
\* sent a second time.
C15_LookupCompletedOnce ==
    /\ [](\A c \in lookups : Completed(c) <= 1)
    /\ \A id \in CommandIds :
          (\E c \in lookups : c.cmd = id)
             ~> (~running \/ \E c \in lookups : c.cmd = id /\ Completed(c) = 1)

\* a lookup that was queued during a bootstrap has completed after one of
\* its probes was answered with a peer; the handler runs
C15_Witness ==
    /\ running
    /\ \E c \in lookups :
          /\ Completed(c) = 1
          /\ \E i \in 1 .. Len(event_tx) :
                /\ event_tx[i].event = "PeerFound"
                /\ event_tx[i].cmd = c.cmd
                /\ event_tx[i].action_id > c.cmd

\* the PeerFound events sent for the lookup of a command and a peer
PeerFound(c, a) ==
    {i \in 1 .. Len(event_tx) :
        /\ event_tx[i].event = "PeerFound"
        /\ event_tx[i].cmd = c.cmd
        /\ event_tx[i].info_hash = c.info_hash
        /\ event_tx[i].addr = a}

\* C16: within one lookup PeerFound is never sent twice for the same info
\* hash and peer address, although several responders name the same peer
\* and a responder answers more than once.
C16_PeerFoundOnce ==
    \A c \in lookups : \A a \in {Peer1, Peer2} :
        Cardinality(PeerFound(c, a)) <= 1

\* two nodes have responded to a registered lookup, each naming the first
\* peer, and PeerFound was sent for that peer once
C16_Witness ==
    \E c \in lookups : \E id \in LookupIds :
        /\ table_actions[id].lookup.cmd = c.cmd
        /\ Cardinality({a \in RemoteAddrs :
               table_actions[id].lookup.shortlist[a] = "Responded"}) >= 2
        /\ Cardinality(PeerFound(c, Peer1)) = 1

\* a step routes to the action id A: every procedure registered under
\* another id is left as it was, and when nothing is registered under A
\* the registered procedures are left as they were
Routed(A) ==
    /\ \A B \in DOMAIN table_actions \ {A} :
          B \in DOMAIN table_actions' /\ table_actions'[B] = table_actions[B]
    /\ A \notin DOMAIN table_actions => table_actions' = table_actions

\* C17: a response whose transaction id bears the ActionID A is processed
\* by no procedure but the one registered under A: the step that handles
\* it changes no procedure registered under another ActionID, and changes
\* no procedure at all when nothing is registered under A.
C17_TransactionRouting ==
    [][/\ \A m \in socket, nodes_v4 \in NodeLists :
             ResponseArrives(m, nodes_v4) => Routed(m.trans_id.aid)
       /\ \A m \in socket, values \in PeerSets :
             GetPeersArrives(m, values) => Routed(m.trans_id.aid)
       /\ \A bytes \in StrayIds, k \in StrayKinds :
             \A t \in TransactionID_from_bytes(bytes) :
                 StrayResponseArrives(k.addr, bytes, k.kind, k.values) =>
                     Routed(t.aid)]_vars

\* a response was handled by a lookup, in which a node has responded,
\* while a bootstrap and the refresh are registered under other action ids
C17_Witness ==
    /\ handled.src = "socket"
    /\ \E id \in LookupIds : \E a \in RemoteAddrs :
          table_actions[id].lookup.shortlist[a] = "Responded"
    /\ Registered(Handler, "Bootstrap") # {}
    /\ Registered(Handler, "Refresh") # {}

\* a response that cannot be routed: its transaction id does not parse,
\* nothing is registered under its ActionID, or what is registered does not
\* take responses of its kind
Unroutable(bytes, kind) ==
    \/ TransactionID_from_bytes(bytes) = {}
    \/ \E t \in TransactionID_from_bytes(bytes) :
          \/ t.aid \notin DOMAIN table_actions
          \/ /\ t.aid \in DOMAIN table_actions
             /\ \/ /\ kind = "GetPeers"
                   /\ table_actions[t.aid].kind \in {"Bootstrap", "Refresh"}
                \/ /\ kind = "Other"
                   /\ table_actions[t.aid].kind = "Lookup"

\* C18: a response that cannot be routed is discarded without effect: the
\* step that handles it leaves the routing table, every procedure, the
\* timer and the storage as they were, sends no datagram and sends no
\* event.
C18_UnroutableDiscarded ==
    [][\A bytes \in StrayIds, k \in StrayKinds :
          /\ Unroutable(bytes, k.kind)
          /\ StrayResponseArrives(k.addr, bytes, k.kind, k.values)
          => /\ UNCHANGED <<routing_table, table_actions, future_actions,
                            timer, storage, expires, event_tx, socket>>
             /\ sent' = <<>>]_vars

\* a response has been handled before any command: nothing was registered
\* under any ActionID, and nothing is registered, scheduled or sent
C18_Witness ==
    /\ handled.src = "socket"
    /\ aid_generator = 1
    /\ table_actions = <<>>
    /\ timer = <<>>
    /\ event_tx = <<>>
    /\ sent = <<>>

\* the step handles a request
RequestHandled == handled'.src = "socket" /\ handled'.type = "Request"

\* C19: a read-only handler discards every request silently: no datagram
\* is sent, no node of the routing table is marked, the token store and
\* the announce storage are unchanged; and it takes a response as a
\* handler that is not read only takes it.
C19_ReadOnlyDiscardsRequests ==
    [][read_only =>
          /\ RequestHandled =>
                \A message \in Requests, addr \in RequestAddrs :
                    RequestArrives(message, addr) =>
                        /\ sent' = <<>>
                        /\ UNCHANGED <<routing_table, token_store, storage,
                                       expires>>
          /\ \A m \in socket :
                GetPeersArrives(m, {Peer1}) =>
                    \E r \in {handle_incoming(
                                  [Handler EXCEPT !.socket = @ \ {m},
                                                  !.read_only = FALSE],
                                  GetPeersResponse(m, {Peer1}), m.to,
                                  clock)} :
                        /\ Becomes([r EXCEPT !.read_only = TRUE])
                        /\ storage' = r.active_stores.storage
                        /\ expires' = r.active_stores.expires]_vars

\* a read-only handler has taken the answer to a get_peers request of its
\* lookup, and then a request, which it has not answered
C19_Witness ==
    /\ read_only
    /\ handled.src = "socket"
    /\ handled.type = "Request"
    /\ sent = <<>>
    /\ routing_table.nodes[Node1] = "questionable"
    /\ TotalStored = 0
    /\ \E i \in 1 .. Len(event_tx) : event_tx[i].event = "PeerFound"

\* the send of the answer of the last turn did not return Err
ReplyTaken == "send_err" \notin DOMAIN handled

\* C20: a handler that is not read only answers every request with one
\* datagram, sent to the address the request came from and bearing the
\* transaction id of the request, whatever procedures are registered; an
\* answer whose send returns Err is not counted against the handler.
C20_RequestAnswered ==
    /\ ~read_only
    /\ handled.src = "socket"
    /\ handled.type = "Request"
    /\ ReplyTaken
    => /\ Len(sent) = 1
       /\ sent[1].msg = "reply"
       /\ sent[1].to = handled.from
       /\ sent[1].transaction_id = handled.transaction_id

\* the last turn of run_once handled an announce_peer request
AnnounceTurn ==
    /\ handled.src = "socket"
    /\ handled.type = "Request"
    /\ handled.message.kind = "AnnouncePeer"

\* the token is one the store with these secrets gives the IP: 4 bytes,
\* made for that IP from the current or the previous secret
TokenAccepted(ts, ip, token) ==
    /\ Len(token) = 2
    /\ token[2] = ip
    /\ token[1] \in {ts.curr, ts.prev}

\* the one datagram of the last turn is this answer to the request handled
Answered(body) ==
    sent = <<[msg |-> "reply", to |-> handled.from,
              transaction_id |-> handled.message.transaction_id,
              body |-> body]>>

InvalidTokenError ==
    [type |-> "Error", code |-> 203, message |-> "received an invalid token"]

\* C21: an announce_peer whose token is malformed or is not one the token
\* store gives the sender's IP is answered, by a handler that processes
\* requests (read_only is false), with the error 203 "received an invalid
\* token", the one datagram of the turn unless its send returns Err, and
\* the step leaves the info-hash map and the expiration queue as they
\* were.
C21_InvalidToken ==
    [][/\ ~read_only
       /\ AnnounceTurn'
       /\ clock' = clock
       /\ ~TokenAccepted(token_store', handled'.from.ip,
                         handled'.message.token)
       => /\ IF ReplyTaken' THEN Answered(InvalidTokenError)'
             ELSE sent' = <<>>
          /\ UNCHANGED <<storage, expires>>]_vars

\* an announce_peer with the token of a secret that is neither the current
\* nor the previous one any more has been refused for a pair that is
\* stored, at a later time than the pair was stored at; the stamp of the
\* pair is the old one
C21_Witness ==
    /\ AnnounceTurn
    /\ handled.from = Node1
    /\ handled.message.token = Token_bytes(1, "n1")
    /\ handled.message.port = {}
    /\ token_store.prev > 1
    /\ Answered(InvalidTokenError)
    /\ \E i \in 1 .. Len(expires) :
          /\ expires[i].address = Node1
          /\ expires[i].inserted < clock

\* the address an announce_peer names: the IP the datagram came from, with
\* the port of the request or, when the port is implied, the port the
\* datagram came from
ConnectAddr(from, message) ==
    SocketAddr(from.ip,
               IF message.port = {} THEN from.port ELSE Unwrap(message.port))

\* the entries of the expiration queue that are less than 24h old
LiveEntries(now) ==
    {i \in 1 .. Len(expires) : now - expires[i].inserted < EXPIRATION_TIME}

\* the storage holds the pair, among the pairs less than 24h old
HoldsPair(info_hash, address, now) ==
    \E i \in LiveEntries(now) :
        /\ expires[i].info_hash = info_hash
        /\ expires[i].address = address

\* the storage holds 500 pairs less than 24h old and the pair is none of
\* them
Refuses(info_hash, address, now) ==
    /\ Cardinality(LiveEntries(now)) >= 500
    /\ ~HoldsPair(info_hash, address, now)

\* the step is one turn of run_once that handles an announce_peer whose
\* token the token store accepts
ValidAnnounceStep ==
    /\ ~read_only
    /\ AnnounceTurn'
    /\ clock' = clock
    /\ TokenAccepted(token_store', handled'.from.ip, handled'.message.token)

StorageFullError ==
    [type |-> "Error", code |-> 202, message |-> "announce storage is full"]

\* C22: an announce_peer with a valid token is answered with the error 202
\* "announce storage is full", and with nothing else, when the storage
\* holds 500 pairs and the pair is none of them, and is answered with that
\* error in no other case; an answer whose send returns Err is no
\* datagram.
C22_StorageFull ==
    [][ValidAnnounceStep =>
          IF ReplyTaken'
          THEN Refuses(handled'.message.info_hash,
                       ConnectAddr(handled'.from, handled'.message), clock)
                  <=> Answered(StorageFullError)'
          ELSE sent' = <<>>]_vars

\* the storage was filled up to one pair, a further pair was announced,
\* and the announce_peer of one more pair has been answered with the
\* error 202
C22_Witness ==
    /\ AnnounceTurn
    /\ TokenAccepted(token_store, handled.from.ip, handled.message.token)
    /\ Answered(StorageFullError)
    /\ filled.count = MAX_ITEMS_STORED - 1
    /\ TotalStored = MAX_ITEMS_STORED
    /\ HoldsPair(0, Node1, clock)
    /\ ~HoldsPair(0, ConnectAddr(handled.from, handled.message), clock)

\* the pairs of the expiration queue that are less than 24h old
LivePairs(now) ==
    {<<expires[i].info_hash, expires[i].address>> : i \in LiveEntries(now)}

\* the last turn of run_once handled a get_peers request
GetPeersTurn ==
    /\ handled.src = "socket"
    /\ handled.type = "Request"
    /\ handled.message.kind = "GetPeers"

\* the step is one turn of run_once that handles a get_peers request
GetPeersStep ==
    /\ ~read_only
    /\ GetPeersTurn'
    /\ clock' = clock
    /\ handled'.at = clock

\* C23: an announce_peer with a valid token for which the storage has
\* room is answered with an OtherResponse with empty node lists, and the
\* step stores the pair of the info hash and the sender's IP with the port
\* of the request, or with the sender's port when the port is implied,
\* next to the pairs less than 24h old and stamped with the time of the
\* step; every step keeps each stored pair that is less than 24h old after
\* it, with its stamp or with the time of the step; and every get_peers is
\* answered, in one datagram to its sender, with values that hold every
\* address stored for its info hash less than 24h before.  So every
\* get_peers that comes less than 24h after the announce_peer, however
\* many requests and however much time lie between the two, returns the
\* announced address.  An answer whose send returns Err is no datagram.
C23_AnnounceStored ==
    [][/\ ValidAnnounceStep =>
             \A pair \in {<<handled'.message.info_hash,
                            ConnectAddr(handled'.from, handled'.message)>>} :
                 ~Refuses(pair[1], pair[2], clock)
                 => /\ IF ReplyTaken' THEN Answered(OtherResponse(<<>>, <<>>))'
                       ELSE sent' = <<>>
                    /\ StoredPairs(storage') = LivePairs(clock) \cup {pair}
                    /\ \E i \in 1 .. Len(expires') :
                          /\ expires'[i].info_hash = pair[1]
                          /\ expires'[i].address = pair[2]
                          /\ expires'[i].inserted = clock
       /\ LET kept == Range(expires')
          IN  \A i \in 1 .. Len(expires) :
                 clock' - expires[i].inserted < EXPIRATION_TIME
                 => \/ expires[i] \in kept
                    \/ [expires[i] EXCEPT !.inserted = clock] \in kept
       /\ GetPeersStep /\ ReplyTaken'
          => /\ Len(sent') = 1
             /\ sent'[1].to = handled'.from
             /\ sent'[1].body.kind = "GetPeers"
             /\ \A i \in LiveEntries(clock) :
                   expires[i].info_hash = handled'.message.info_hash
                   => expires[i].address \in Range(sent'[1].body.values)]_vars

\* the step is one turn of run_once that handles an announce_peer which
\* presents the token of the get_peers answer sent in the turn before
TokenPresented ==
    /\ ~read_only
    /\ GetPeersTurn
    /\ AnnounceTurn'
    /\ handled'.at = clock
    /\ ReplyTaken
    /\ handled'.message.token = sent[1].body.token

\* C24: the token of a get_peers answer is made for the sender's IP from
\* the current secret; an announce_peer that follows from that IP, from
\* any port, and presents the token is not refused for its token while the
\* secret of the token is the current or the previous one; and an
\* announce_peer from another IP that presents it is answered with the
\* error 203.
C24_TokenRoundTrip ==
    [][/\ ~read_only /\ GetPeersTurn' /\ handled'.at = clock
          /\ handled' # handled /\ ReplyTaken'
          => /\ Len(sent') = 1
             /\ sent'[1].body.token
                   = <<token_store'.curr, handled'.from.ip>>
       /\ TokenPresented /\ handled'.from.ip = handled.from.ip
          /\ ReplyTaken'
          /\ sent[1].body.token[1]
                \in {token_store'.curr, token_store'.prev}
          => /\ ~Answered(InvalidTokenError)'
             /\ \/ Answered(OtherResponse(<<>>, <<>>))'
                \/ Answered(StorageFullError)'
       /\ TokenPresented /\ handled'.from.ip # handled.from.ip
          /\ ReplyTaken'
          => Answered(InvalidTokenError)']_vars

\* a node has announced from another port than the one it sends its
\* get_peers from, with the token of the previous secret, and has been
\* answered with success
C24_Witness ==
    /\ AnnounceTurn
    /\ handled.from = SocketAddr("n1", AnnouncedPort)
    /\ handled.message.token = <<token_store.prev, "n1">>
    /\ token_store.prev > TokenStore_new.prev
    /\ Answered(OtherResponse(<<>>, <<>>))

\* the transaction ids of the actions that are not registered
StaleTokens ==
    {[aid |-> aid, seq |-> seq] :
        aid \in (0 .. (MaxBootstraps + MaxLookups)) \ DOMAIN table_actions,
        seq \in 0 .. 1}

\* the step handles the i-th timer event and no more
TimerDropped(i) ==
    /\ timer' = TimerWithout(i)
    /\ sent' = <<>>
    /\ UNCHANGED <<table_actions, future_actions, routing_table, storage,
                   expires, event_tx, running, bootstrapping>>

\* C25: a timer event whose ActionID is not registered is dropped: the
\* four checks leave the handler as it is for every such transaction id,
\* and the step in which the timer yields such an event changes no
\* procedure, routing-table or storage state, sends no datagram and no
\* event and schedules no check.
C25_StaleTimerDropped ==
    /\ [](\A t \in StaleTokens :
             /\ handle_check_bootstrap_timeout(Handler, t) = Handler
             /\ handle_check_lookup_timeout(Handler, t) = Handler
             /\ handle_check_lookup_endgame(Handler, t) = Handler
             /\ handle_check_table_refresh(Handler, t) = Handler)
    /\ [][\A i \in 1 .. Len(timer) :
             /\ timer[i].trans_id.aid \notin DOMAIN table_actions
             /\ \/ BootstrapTimeoutFires(i)
                \/ LookupTimeoutFires(i)
                \/ LookupEndGameFires(i)
                \/ i = 1 /\ TableRefreshFires
             => TimerDropped(i)]_vars

\* the timer has yielded the BootstrapTimeout of a bootstrap that had
\* completed in an earlier step: an event of a lookup has followed its
\* BootstrapCompleted
C25_Witness ==
    /\ handled.src = "timer"
    /\ handled.token.check = "BootstrapTimeout"
    /\ handled.token.trans_id.aid \notin DOMAIN table_actions
    /\ Sent("BootstrapCompleted", handled.token.trans_id.aid) = 1
    /\ event_tx[Len(event_tx)].event = "PeerFound"
    /\ sent = <<>>

\* C26: no node of the routing table has the address of a router given to
\* StartBootstrap.  Every StartBootstrap of these runs names the router.
C26_RoutersNotInTable ==
    commands > 0 => routing_table.nodes[Router] = "none"

\* the action ids under which the refresh is registered
RefreshIds == Registered(Handler, "Refresh")

\* C27: the refresh never completes or fails.  While the handler runs, once
\* a BootstrapCompleted has been sent a Refresh is registered, and no step
\* (a timer event, a response, the endgame of a lookup, a command, a later
\* bootstrap) removes a registered Refresh or replaces it by another
\* procedure.
C27_RefreshStays ==
    /\ [](running /\ (\E i \in 1 .. Len(event_tx) :
                          event_tx[i].event = "BootstrapCompleted")
             => RefreshIds # {})
    /\ [][running' =>
             \A a \in RefreshIds :
                 /\ a \in DOMAIN table_actions'
                 /\ table_actions'[a].kind = "Refresh"]_vars

\* the refresh is registered and has refreshed a bucket, after two
\* bootstraps were completed and a lookup had its endgame
C27_Witness ==
    /\ running
    /\ \E a \in RefreshIds : table_actions[a].refresh.curr_refresh_bucket > 0
    /\ Cardinality({i \in 1 .. Len(event_tx) :
                       event_tx[i].event = "BootstrapCompleted"}) >= 2
    /\ \E i \in 1 .. Len(event_tx) : event_tx[i].event = "LookupCompleted"

\* the pairs of the expiration queue
QueuedPairs ==
    {KeyOf(expires[i]) : i \in 1 .. Len(expires)}

\* the pairs of the info hash map
MappedPairs ==
    UNION {{KeyOf(storage[h][k]) : k \in 1 .. Len(storage[h])} :
               h \in DOMAIN storage}

\* C28: the purge by head scan is complete.  The expiration queue is in
\* the order of its entries' times of insertion or renewal; and after an
\* add_item or find_items at time T (the tests' fill included) every entry
\* of the queue is younger than 24h, every pair of the map has an entry in
\* the queue, and a pair whose most recent accepted add_item was at or
\* before T - 24h is in neither.
C28_PurgeComplete ==
    /\ \A i \in 1 .. (Len(expires) - 1) :
          expires[i].inserted <= expires[i + 1].inserted
    /\ ret.op \in {"add_item", "find_items", "fill"} =>
          /\ \A i \in 1 .. Len(expires) :
                clock - expires[i].inserted < EXPIRATION_TIME
          /\ MappedPairs \subseteq QueuedPairs
          /\ \A p \in ProbePairs :
                (accepted[p] >= 0 /\ clock - accepted[p] >= EXPIRATION_TIME)
                => [address |-> p[2], info_hash |-> p[1]]
                       \notin QueuedPairs \cup MappedPairs
          /\ (filled.count > 0 /\ clock - filled.time >= EXPIRATION_TIME)
             => \A a \in 2 .. filled.count :
                    [address |-> a, info_hash |-> 0]
                        \notin QueuedPairs \cup MappedPairs

\* find_items at 24h after the fill of the block has purged the block but
\* for its first pair, which was renewed after the fill and stands at the
\* tail of the queue
C28_Witness ==
    /\ ret.op = "find_items"
    /\ filled.count > 0
    /\ clock - filled.time = EXPIRATION_TIME
    /\ renewed[<<0, 1>>]
    /\ accepted[<<0, 1>>] > filled.time
    /\ [address |-> 1, info_hash |-> 0] \in QueuedPairs \cap MappedPairs
    /\ \A a \in 2 .. filled.count :
          [address |-> a, info_hash |-> 0] \notin QueuedPairs \cup MappedPairs

\* the step starts the registered bootstrap of action a again
Restarted(a) ==
    bootstrap_starts'[a] = bootstrap_starts[a] + 1

\* the step sends BootstrapCompleted for action a
CompletedNow(a) ==
    Sent("BootstrapCompleted", a)' > Sent("BootstrapCompleted", a)

\* C29: the threshold of the rebootstrap.  In a step in which a registered
\* bootstrap that has been started fewer than 3 times (the first start
\* counted) ends its run, by being started again or by BootstrapCompleted,
\* it is started again iff the routing table has 10 or fewer good nodes.
\* The restart adds one to the attempts, begins at phase 0, keeps the
\* bootstrap registered and comes before any BootstrapCompleted of the
\* bootstrap; with 11 or more good nodes BootstrapCompleted is sent and
\* start_bootstrap is not called.
C29_RebootstrapThreshold ==
    [][\A a \in Registered(Handler, "Bootstrap") :
          (/\ bootstrap_starts[a] < MAX_BOOTSTRAP_ATTEMPTS
           /\ Restarted(a) \/ CompletedNow(a))
          => /\ Restarted(a) <=>
                   num_good_nodes(routing_table')
                       <= BOOTSTRAP_GOOD_NODE_THRESHOLD
             /\ Restarted(a) =>
                   /\ a \in DOMAIN table_actions'
                   /\ table_actions'[a].kind = "Bootstrap"
                   /\ table_actions'[a].attempts =
                          table_actions[a].attempts + 1
                   /\ table_actions'[a].bootstrap.bucket_cursor = 0
                   /\ Sent("BootstrapCompleted", a)' = 0
             /\ ~Restarted(a) =>
                   /\ bootstrap_starts'[a] = bootstrap_starts[a]
                   /\ Sent("BootstrapCompleted", a)' = 1
                   /\ a \notin DOMAIN table_actions']_vars

\* a bootstrap that completed with exactly 10 good nodes in the table has
\* been started a second time and no BootstrapCompleted was sent for it
C29_Witness ==
    /\ running
    /\ handled.src = "socket"
    /\ num_good_nodes(routing_table) = BOOTSTRAP_GOOD_NODE_THRESHOLD
    /\ \E a \in Registered(Handler, "Bootstrap") :
          /\ bootstrap_starts[a] = 2
          /\ table_actions[a].attempts = 1
          /\ table_actions[a].bootstrap.bucket_cursor = 0
          /\ Sent("BootstrapCompleted", a) = 0

\* the action ids of the lookups LookupCompleted was sent for
CompletedLookups ==
    {event_tx[i].action_id :
        i \in {j \in 1 .. Len(event_tx) :
                  event_tx[j].event = "LookupCompleted"}}

\* the PeerFound and LookupCompleted events sent for the lookup of action a
LookupEvents(a) ==
    {i \in 1 .. Len(event_tx) :
        /\ event_tx[i].event \in {"PeerFound", "LookupCompleted"}
        /\ event_tx[i].action_id = a}

\* C30: LookupCompleted is terminal for its lookup.  Once it has been sent
\* for a lookup, nothing is registered under the lookup's ActionID, the
\* lookup timeout and endgame checks leave the handler as it is for a
\* transaction id of that ActionID, no step sends a further PeerFound or
\* LookupCompleted for it, and a response that bears its ActionID is
\* handled without any effect.
C30_LookupCompletedTerminal ==
    /\ [](\A a \in CompletedLookups :
             /\ a \notin DOMAIN table_actions
             /\ \A seq \in 0 .. 1 :
                   /\ handle_check_lookup_timeout(
                          Handler, [aid |-> a, seq |-> seq]) = Handler
                   /\ handle_check_lookup_endgame(
                          Handler, [aid |-> a, seq |-> seq]) = Handler)
    /\ [][\A a \in CompletedLookups :
             /\ LookupEvents(a)' = LookupEvents(a)
             /\ \A k \in StrayKinds :
                   StrayResponseArrives(k.addr, <<a, 0>>, k.kind, k.values)
                   => /\ UNCHANGED <<routing_table, table_actions,
                                     future_actions, timer, storage, expires,
                                     event_tx, socket>>
                      /\ sent' = <<>>]_vars

\* a response has been handled after the LookupCompleted of a lookup for
\* which PeerFound had been sent: LookupCompleted is the last event, the
\* lookup is not registered and nothing was sent
C30_Witness ==
    /\ running
    /\ handled.src = "socket"
    /\ handled.type = "Response"
    /\ sent = <<>>
    /\ event_tx # <<>>
    /\ event_tx[Len(event_tx)].event = "LookupCompleted"
    /\ \E a \in CompletedLookups :
          /\ event_tx[Len(event_tx)].action_id = a
          /\ Cardinality(LookupEvents(a)) >= 2
          /\ a \notin DOMAIN table_actions

\* the find_node and get_peers requests sent in the turn
RequestsSent ==
    {i \in 1 .. Len(sent) : sent[i].msg \in {"find_node", "get_peers"}}

\* C31 as stated: every request of a procedure is sent with the procedure
\* registered in table_actions.
C31_InstallBeforeSend ==
    \A i \in RequestsSent : sent[i].installed

\* C31, amended: a procedure is registered within the turn that sends its
\* first requests.  After every turn each find_node or get_peers request
\* sent in it bears the ActionID of a registered procedure; the requests
\* of the refresh are sent with the refresh registered; a request sent
\* before the registration is one of a bootstrap or a lookup, sent in the
\* turn of a command or in the turn that sends BootstrapCompleted and
\* starts the queued lookups.
C31_InstallWithinTurn ==
    \A i \in RequestsSent :
        /\ sent[i].trans_id.aid \in DOMAIN table_actions
        /\ table_actions[sent[i].trans_id.aid].kind = "Refresh"
           => sent[i].installed
        /\ ~sent[i].installed
           => /\ table_actions[sent[i].trans_id.aid].kind
                    \in {"Bootstrap", "Lookup"}
              /\ \/ handled.src = "command"
                 \/ \E j \in 1 .. Len(event_tx) :
                       event_tx[j].event = "BootstrapCompleted"

\* a StartBootstrap has been handled: the find_node request of the first
\* phase was sent before the bootstrap was registered, and the bootstrap
\* is registered
C31_Witness ==
    /\ handled.src = "command"
    /\ \E i \in RequestsSent :
          /\ ~sent[i].installed
          /\ sent[i].msg = "find_node"
          /\ sent[i].trans_id.aid \in DOMAIN table_actions
          /\ table_actions[sent[i].trans_id.aid].kind = "Bootstrap"

\* the timer yields the TableRefresh of the refresh registered as a
RefreshFiring(a) ==
    /\ a \in Registered(Handler, "Refresh")
    /\ handled'.src = "timer"
    /\ handled'.token.check = "TableRefresh"
    /\ handled'.token.trans_id.aid = a
    /\ timer # <<>>
    /\ timer[1] = handled'.token

\* the send of the socket returned Err in the turn that leads to the
\* next state
SendFailed == "send_err" \in DOMAIN handled'

\* the bucket a firing of the refresh registered as a is for
RefreshBucket(a) ==
    table_actions[a].refresh.curr_refresh_bucket % MAX_BUCKETS

\* the questionable nodes of the table
Questionables == {n \in RemoteAddrs : routing_table.nodes[n] = "questionable"}

\* C32: on a firing of the refresh with a Questionable node in the table,
\* the socket taking the datagram, exactly one request is sent: a
\* find_node whose target is the local id with the bit of the cursor
\* flipped, to the Questionable node that comes first in
\* closest_nodes(target), and local_request is recorded on that node;
\* nothing is sent to a Good or a Bad node.
C32_RefreshProbe ==
    [][\A a \in DOMAIN table_actions :
          RefreshFiring(a) /\ ~SendFailed /\ Questionables # {}
          => /\ Len(sent') = 1
             /\ sent'[1].msg = "find_node"
             /\ sent'[1].target = flip_bit(RefreshBucket(a))
             /\ sent'[1].to \in Questionables
             /\ \A n \in Questionables \ {sent'[1].to} :
                   YieldedBefore(routing_table, flip_bit(RefreshBucket(a)),
                                 sent'[1].to, n)
             /\ sent'[1].to \in routing_table'.requested
             /\ routing_table'.nodes = routing_table.nodes]_vars

\* the refresh has fired for the last bucket with Node1 and Node2
\* Questionable: the find_node went to Node2, the closer of the two to
\* the target, and Node2 has a request pending
C32_Witness ==
    /\ handled.src = "timer"
    /\ handled.token.check = "TableRefresh"
    /\ Len(sent) = 1
    /\ sent[1].msg = "find_node"
    /\ sent[1].to = Node2
    /\ sent[1].target = flip_bit(MAX_BUCKETS - 1)
    /\ routing_table.nodes[Node1] = "questionable"
    /\ routing_table.nodes[Node2] = "questionable"
    /\ Node2 \in routing_table.requested

\* the cursor of the refresh registered as a
Cursor(a) == table_actions[a].refresh.curr_refresh_bucket

\* C33: the cursor of a new refresh is 0 and a registered one is within
\* 0..160; a firing passes the bit cursor mod 160, which is within 0..159,
\* to flip_bit and leaves the cursor at that bit plus one, so the bits of
\* successive firings are successive modulo 160 and the k-th firing is
\* for bucket k mod 160.
C33_RefreshCursor ==
    /\ [](/\ TableRefresh_new(0).curr_refresh_bucket = 0
          /\ \A a \in Registered(Handler, "Refresh") :
                Cursor(a) \in 0 .. MAX_BUCKETS)
    /\ [][\A a \in DOMAIN table_actions :
            RefreshFiring(a)
            => /\ RefreshBucket(a) \in 0 .. MAX_BUCKETS - 1
               /\ Cursor(a)' = RefreshBucket(a) + 1
               /\ RefreshBucket(a)' = (RefreshBucket(a) + 1) % MAX_BUCKETS
               /\ \A i \in 1 .. Len(sent') :
                     sent'[i].target = flip_bit(RefreshBucket(a))]_vars

\* the refresh has fired with the cursor at 160: the find_node it sent is
\* for bit 0 and the cursor is 1
C33_Witness ==
    /\ handled.src = "timer"
    /\ handled.token.check = "TableRefresh"
    /\ \E a \in Registered(Handler, "Refresh") : Cursor(a) = 1
    /\ Len(sent) = 1
    /\ sent[1].target = flip_bit(0)
    /\ \E i \in 1 .. Len(timer) : timer[i].check = "TableRefresh"

\* C34: a firing of the refresh with no Questionable node in the table
\* sends no datagram and changes nothing in the routing table; such a
\* firing, and one whose send returns Err, still advances the cursor and
\* schedules the next TableRefresh in place of the one taken.
C34_RefreshNoCandidate ==
    [][\A a \in DOMAIN table_actions :
          RefreshFiring(a)
          => /\ Questionables = {}
                => /\ sent' = <<>>
                   /\ socket' = socket
                   /\ routing_table' = routing_table
             /\ Questionables = {} \/ SendFailed
                => /\ sent' = <<>>
                   /\ socket' = socket
                   /\ Cursor(a)' = RefreshBucket(a) + 1
                   /\ Len(timer') = Len(timer)
                   /\ timer'[Len(timer')].check = "TableRefresh"
                   /\ \A i \in 1 .. Len(timer) - 1 :
                         timer'[i] = timer[i + 1]]_vars

\* the refresh has fired with a Good and a Bad node in the table and no
\* Questionable one: nothing was sent, no request is pending, the cursor
\* has advanced and a TableRefresh is scheduled
C34_Witness ==
    /\ handled.src = "timer"
    /\ handled.token.check = "TableRefresh"
    /\ "send_err" \notin DOMAIN handled
    /\ Questionables = {}
    /\ \E n \in RemoteAddrs : routing_table.nodes[n] = "good"
    /\ \E n \in RemoteAddrs : routing_table.nodes[n] = "bad"
    /\ sent = <<>>
    /\ socket = {}
    /\ routing_table.requested = {}
    /\ \E a \in Registered(Handler, "Refresh") :
          Cursor(a) = MAX_BUCKETS - MaxRefreshes + 1
    /\ timer # <<>>
    /\ timer[Len(timer)].check = "TableRefresh"

\* the addresses the info hash map holds for an info hash
StoredAddrs(info_hash) ==
    IF info_hash \in DOMAIN storage
    THEN {storage[info_hash][k].address : k \in 1 .. Len(storage[info_hash])}
    ELSE {}

\* C35: the announce storage never holds an IPv6 address, whatever the
\* address family of the senders of announce_peer and whether the port is
\* explicit or implied, and the values of the reply to a get_peers are all
\* the addresses stored for the info hash.
C35_NoIpv6Stored ==
    /\ \A p \in QueuedPairs \cup MappedPairs : is_ipv4(p.address)
    /\ GetPeersTurn /\ sent # <<>>
       => {sent[1].body.values[k] : k \in 1 .. Len(sent[1].body.values)}
             = StoredAddrs(handled.message.info_hash)

\* C36: the expiration queue and the info hash map hold the same pairs
\* of info hash and address, the queue holds no pair twice and no list of
\* the map holds an address twice, so the length of the queue is the
\* number of the stored pairs, and no list of the map is empty.
C36_StorageBookkeeping ==
    /\ QueuedPairs = MappedPairs
    /\ Cardinality(QueuedPairs) = Len(expires)
    /\ \A h \in DOMAIN storage :
          /\ storage[h] # <<>>
          /\ \A i, j \in 1 .. Len(storage[h]) :
                storage[h][i].address = storage[h][j].address => i = j
          /\ \A i \in 1 .. Len(storage[h]) : storage[h][i].info_hash = h
    /\ Len(expires) = TotalStored

\* an add_item has renewed a pair that was in force, with pairs stored
\* under both info hashes: the queue has as many entries as there are
\* pairs, the renewed pair last
C36_Witness ==
    /\ ret.op = "add_item"
    /\ ret.res
    /\ renewed[<<ret.info_hash, ret.address>>]
    /\ Cardinality(DOMAIN storage) = 2
    /\ Len(expires) >= 2
    /\ Len(expires) = TotalStored
    /\ KeyOf(expires[Len(expires)])
          = [address |-> ret.address, info_hash |-> ret.info_hash]

\* the TableRefresh events the timer holds
RefreshPending == {i \in 1 .. Len(timer) : timer[i].check = "TableRefresh"}

\* C37: from the step that registers the refresh on, the timer of the
\* running handler holds exactly one TableRefresh between two turns, and
\* none before; and with the timer yielding what is due, a refresh that
\* is pending fires: the cursor of the running handler moves on.
C37_RefreshTicks ==
    /\ [](/\ running /\ Registered(Handler, "Refresh") # {}
             => Cardinality(RefreshPending) = 1 /\ timer # <<>>
          /\ Registered(Handler, "Refresh") = {} => RefreshPending = {})
    /\ \A c \in 0 .. MaxRefreshes - 1 :
          (/\ running
           /\ \E a \in Registered(Handler, "Refresh") : Cursor(a) = c)
             ~> (\/ ~running
                 \/ \E a \in Registered(Handler, "Refresh") : Cursor(a) = c + 1)

\* the refresh has fired a second time while another check is pending:
\* one TableRefresh is in the timer, behind that check
C37_Witness ==
    /\ running
    /\ handled.src = "timer"
    /\ handled.token.check = "TableRefresh"
    /\ \E a \in Registered(Handler, "Refresh") : Cursor(a) = MaxRefreshes
    /\ Cardinality(RefreshPending) = 1
    /\ Len(timer) >= 2
    /\ timer[Len(timer)].check = "TableRefresh"

\* the Refresh actions queued for the end of the bootstrap
RefreshesQueued ==
    {i \in 1 .. Len(future_actions) : future_actions[i].action = "Refresh"}

\* how many times BootstrapCompleted was sent
CompletedCount ==
    Cardinality({i \in 1 .. Len(event_tx) :
                    event_tx[i].event = "BootstrapCompleted"})

\* C38: there is one Refresh, created with the handler: it is queued, ahead
\* of every queued lookup, until the first BootstrapCompleted and
\* registered from then on.  The step that sends the first
\* BootstrapCompleted registers it and fires it once, before it starts the
\* queued lookups; no other step but the firing of the TableRefresh that
\* is due touches the registered Refresh or the number of pending
\* TableRefresh events, so later StartBootstrap commands and completions
\* register no second Refresh and fire no extra tick.
C38_SingleRefresh ==
    /\ [](/\ Cardinality(RefreshIds) + Cardinality(RefreshesQueued) = 1
          /\ RefreshesQueued \subseteq {1}
          /\ CompletedCount = 0 <=> RefreshIds = {})
    /\ [][/\ CompletedCount = 0 /\ CompletedCount' > 0
             => /\ RefreshIds' # {}
                /\ \A a \in RefreshIds' :
                      /\ Cursor(a)' = 1
                      /\ Cardinality(RefreshPending') = 1
                      /\ \A i \in RefreshPending', j \in 1 .. Len(timer') :
                            timer'[j].trans_id.aid \in LookupIds' \ LookupIds
                            => i < j
                      /\ \A i, j \in RequestsSent' :
                            /\ sent'[i].trans_id.aid = a
                            /\ sent'[j].msg = "get_peers"
                            => i < j
          /\ \A a \in RefreshIds :
                \/ RefreshFiring(a)
                \/ /\ a \in RefreshIds'
                   /\ table_actions'[a] = table_actions[a]
                   /\ Cardinality(RefreshPending')
                         = Cardinality(RefreshPending)]_vars

\* a second bootstrap has completed after the refresh was registered by
\* the first: one Refresh is registered, it has fired once, and one
\* TableRefresh is pending
C38_Witness ==
    /\ CompletedCount = 2
    /\ event_tx[Len(event_tx)].event = "BootstrapCompleted"
    /\ Cardinality(RefreshIds) = 1
    /\ \A a \in RefreshIds : Cursor(a) = 1
    /\ Cardinality(RefreshPending) = 1
    /\ RefreshesQueued = {}

====
